---- MODULE Spec2Model ----
(***************************************************************************)
(* A model of the personal-finance pipeline of Case-10:                    *)
(*   data_importer.py  (record normalizer, transaction importer)           *)
(*   categorizer.py    (keyword categorization)                            *)
(*   analyzer.py       (statistics)                                        *)
(*   budget_planner.py (budget engine)                                     *)
(*                                                                         *)
(* A Python string is a sequence of lexemes.  A lexeme is one character    *)
(* ("1", "-", " ") or one indivisible word ("debit", "ru_rashod"); the     *)
(* substring test `w in s` for a one-lexeme w is membership of w in s.     *)
(* Cyrillic literals of the source are written in Latin letters with the   *)
(* prefix ru_ (ru_rashod, ru_dohod, ru_data, ...).                         *)
(***************************************************************************)
EXTENDS Integers, Sequences, FiniteSets, TLC

VARIABLES
    file,                \* the file handed to import_financial_data
    strftime_pads,       \* whether the C library zero-pads %Y below 1000
    pc,                  \* position inside import_financial_data
    i,                   \* index of the next raw record of the file
    norm,                \* what the normalizer returned for the last record
    raw_data,            \* transactions the reader has produced so far
    valid_transactions,  \* the list import_financial_data returns
    exc                  \* the exception that left import_financial_data

importVars == <<file, strftime_pads, pc, i, norm, raw_data, valid_transactions, exc>>

VARIABLES
    tx_description,      \* categorize_transaction: its description argument
    tx_amount,           \* categorize_transaction: its amount argument
    categories,          \* categorize_transaction: its taxonomy argument
    category,            \* the label categorize_transaction returned
    cat_pc               \* "start", or "done" once it has returned

catVars == <<tx_description, tx_amount, categories, category, cat_pc>>

VARIABLES
    transactions,        \* calculate_basic_stats: its transactions argument
    stats,               \* the dict calculate_basic_stats returned
    stats_pc,            \* "start", or "done" once it has returned
    category_stats       \* the dict calculate_by_category returned, or None

statsVars == <<transactions, stats, stats_pc, category_stats>>

VARIABLES
    budget,              \* compare_budget_vs_actual: its budget argument
    actual_transactions, \* the transaction list given to both budget functions
    analysis,            \* what analyze_historical_spending returned, or None
    comparison           \* what compare_budget_vs_actual returned or raised, or None

budgetVars == <<budget, actual_transactions, analysis, comparison>>

VARIABLES
    all_transactions,          \* the list given to categorize_all_transactions
    categorized_transactions,  \* the list it returned, or None
    calls                      \* the categorizer calls made so far, with results

allVars == <<all_transactions, categorized_transactions, calls>>

VARIABLES
    date_given,          \* normalize_date: its argument
    date_normalized,     \* what normalize_date returned for it, or None
    date_renormalized    \* what normalize_date returned for that result, or None

dateVars == <<date_given, date_normalized, date_renormalized>>

VARIABLES
    main_transactions,             \* main.py: the global transactions
    main_categorized_transactions, \* main.py: the global categorized_transactions
    main_stats,                    \* main.py: the global stats
    main_category_stats,           \* main.py: the global category_stats
    main_budget_analysis,          \* main.py: the global budget_analysis
    main_budget_template,          \* main.py: the global budget_template
    main_pc,                       \* "menu", "raised" or "exit"
    main_output                    \* what the last report, save or detail showed

mainVars == <<main_transactions, main_categorized_transactions, main_stats,
              main_category_stats, main_budget_analysis, main_budget_template,
              main_pc, main_output>>

vars == <<importVars, catVars, statsVars, budgetVars, allVars, dateVars, mainVars>>

----------------------------------------------------------------------------
(* Strings *)

DigitSeq == <<"0", "1", "2", "3", "4", "5", "6", "7", "8", "9">>

Digits == {DigitSeq[k] : k \in 1..10}

DigitVal(c) == (CHOOSE k \in 1..10 : DigitSeq[k] = c) - 1

\* str.isdigit(): non-empty and every character a digit
isdigit(s) == Len(s) > 0 /\ \A k \in 1..Len(s) : s[k] \in Digits

\* int(s) of a digit string
RECURSIVE NumVal(_)
NumVal(s) ==
    IF s = <<>> THEN 0
    ELSE 10 * NumVal(SubSeq(s, 1, Len(s) - 1)) + DigitVal(s[Len(s)])

\* the decimal digits of n >= 0
RECURSIVE NumToDigits(_)
NumToDigits(n) ==
    IF n < 10 THEN <<DigitSeq[n + 1]>>
    ELSE NumToDigits(n \div 10) \o <<DigitSeq[(n % 10) + 1]>>

RECURSIVE ZeroPad(_, _)
ZeroPad(s, width) == IF Len(s) >= width THEN s ELSE ZeroPad(<<"0">> \o s, width)

\* s.replace(a, b) for one-lexeme a; b is a string (possibly empty)
RECURSIVE replace(_, _, _)
replace(s, a, b) ==
    IF s = <<>> THEN <<>>
    ELSE (IF s[1] = a THEN b ELSE <<s[1]>>) \o replace(Tail(s), a, b)

\* s.count(a)
count(s, a) == Cardinality({k \in 1..Len(s) : s[k] = a})

\* a in s, for a one-lexeme a
contains(s, a) == \E k \in 1..Len(s) : s[k] = a

\* s.split(c)
RECURSIVE split(_, _)
split(s, c) ==
    IF contains(s, c)
    THEN LET k == CHOOSE k \in 1..Len(s) :
                      s[k] = c /\ \A j \in 1..(k - 1) : s[j] # c
         IN <<SubSeq(s, 1, k - 1)>> \o split(SubSeq(s, k + 1, Len(s)), c)
    ELSE <<s>>

\* s.strip() where the only whitespace is the blank
RECURSIVE strip(_)
strip(s) ==
    IF s = <<>> THEN s
    ELSE IF s[1] = " " THEN strip(Tail(s))
    ELSE IF s[Len(s)] = " " THEN strip(SubSeq(s, 1, Len(s) - 1))
    ELSE s

\* str.lower() on the lexemes that have an upper-case form in the model
LowerLex(c) ==
    CASE c = "DEBIT" -> "debit"
      [] c = "CREDIT" -> "credit"
      [] c = "A" -> "a"
      [] c = "RU_A" -> "ru_a"
      [] c = "RU_T" -> "ru_t"
      [] c = "RU_YA" -> "ru_ya"
      [] c = "RU_F" -> "ru_f"
      [] c = "RU_K" -> "ru_k"
      [] c = "RU_M" -> "ru_m"
      [] c = "RU_P" -> "ru_p"
      [] c = "RU_R" -> "ru_r"
      [] c = "RU_S" -> "ru_s"
      [] c = "RU_Z" -> "ru_z"
      [] c = "W" -> "w"
      [] OTHER -> c

lower(s) == [k \in 1..Len(s) |-> LowerLex(s[k])]

----------------------------------------------------------------------------
(* Python values of a raw record: str, None, int *)

None == [t |-> "none"]

StrV(s) == [t |-> "str", s |-> s]

IntV(n) == [t |-> "int", n |-> n]

ListV(l) == [t |-> "list", items |-> l]

\* truthiness of a value
Truthy(v) ==
    CASE v.t = "str" -> v.s # <<>>
      [] v.t = "int" -> v.n # 0
      [] OTHER -> FALSE

\* str(v)
str(v) ==
    CASE v.t = "str" -> v.s
      [] v.t = "int" -> IF v.n < 0 THEN <<"-">> \o NumToDigits(-v.n)
                        ELSE NumToDigits(v.n)
      [] OTHER -> <<"None">>

\* the key csv.DictReader gives the surplus columns of a row (restkey)
NoneKey == "<None>"

\* key.lower().strip() for the keys of the model
LowerKey(k) ==
    CASE k = "Date" -> "date"
      [] k = " amount " -> "amount"
      [] OTHER -> k

\* A dict built from a sequence of [k, v] pairs; a later pair replaces an
\* earlier one with the same key.
DictOf(pairs) ==
    [k \in {pairs[j].k : j \in 1..Len(pairs)} |->
        LET last == CHOOSE j \in 1..Len(pairs) :
                        pairs[j].k = k
                        /\ \A h \in (j + 1)..Len(pairs) : pairs[h].k # k
        IN pairs[last].v]

----------------------------------------------------------------------------
(* Amounts: the exact decimal value of a float, m / 10^d, in lowest form  *)

RECURSIVE Normal(_, _)
Normal(m, d) ==
    IF d > 0 /\ m % 10 = 0 THEN Normal(m \div 10, d - 1)
    ELSE [m |-> m, d |-> d]

Abs(n) == IF n < 0 THEN -n ELSE n

\* -abs(amount) and abs(amount)
NegAbs(a) == [m |-> -Abs(a.m), d |-> a.d]

PosAbs(a) == [m |-> Abs(a.m), d |-> a.d]

\* float(s): [ok, val].  Python strips blanks at both ends, takes an
\* optional sign, then digits with at most one point and at least one digit.
float(s) ==
    LET t == strip(s)
        neg == t # <<>> /\ t[1] = "-"
        body == IF neg THEN Tail(t) ELSE t
        digits == replace(body, ".", <<>>)
        parts == split(body, ".")
    IN IF count(body, ".") <= 1 /\ isdigit(digits)
       THEN [ok |-> TRUE,
             val |-> Normal((IF neg THEN -1 ELSE 1) * NumVal(digits),
                            IF Len(parts) = 2 THEN Len(parts[2]) ELSE 0)]
       ELSE [ok |-> FALSE]

----------------------------------------------------------------------------
(* data_importer.py: dates *)

IsLeap(y) == (y % 4 = 0 /\ y % 100 # 0) \/ y % 400 = 0

DaysInMonth(y, m) ==
    IF m = 2 THEN (IF IsLeap(y) THEN 29 ELSE 28)
    ELSE IF m \in {4, 6, 9, 11} THEN 30 ELSE 31

\* the two slash formats in the other order (a faulty variant of
\* date_formats)
date_formats_MonthFirst ==
    << [sep |-> "-", order |-> <<"Y", "m", "d">>],
       [sep |-> ".", order |-> <<"d", "m", "Y">>],
       [sep |-> "/", order |-> <<"m", "d", "Y">>],
       [sep |-> "/", order |-> <<"d", "m", "Y">>],
       [sep |-> ".", order |-> <<"Y", "m", "d">>] >>

\* the formats of normalize_date, in its order: separator and field order
date_formats ==
    << [sep |-> "-", order |-> <<"Y", "m", "d">>],
       [sep |-> ".", order |-> <<"d", "m", "Y">>],
       [sep |-> "/", order |-> <<"d", "m", "Y">>],
       [sep |-> "/", order |-> <<"m", "d", "Y">>],
       [sep |-> ".", order |-> <<"Y", "m", "d">>] >>

\* one directive of strptime against one whole field: %Y is four digits,
\* %m is 1..12 and %d is 1..31 in one or two digits
FieldMatches(f, directive) ==
    /\ isdigit(f)
    /\ CASE directive = "Y" -> Len(f) = 4
         [] directive = "m" -> Len(f) \in {1, 2} /\ NumVal(f) \in 1..12
         [] directive = "d" -> Len(f) \in {1, 2} /\ NumVal(f) \in 1..31

\* datetime.strptime(date_str, fmt): [ok, y, m, d]; ok = FALSE is ValueError
strptime(date_str, fmt) ==
    LET fields == split(date_str, fmt.sep)
        pos(directive) == CHOOSE k \in 1..3 : fmt.order[k] = directive
    IN IF Len(fields) = 3 /\ \A k \in 1..3 : FieldMatches(fields[k], fmt.order[k])
       THEN LET y == NumVal(fields[pos("Y")])
                m == NumVal(fields[pos("m")])
                d == NumVal(fields[pos("d")])
            IN IF y >= 1 /\ d <= DaysInMonth(y, m)
               THEN [ok |-> TRUE, y |-> y, m |-> m, d |-> d]
               ELSE [ok |-> FALSE]
       ELSE [ok |-> FALSE]

_is_valid_date(date_str, fmt) == strptime(date_str, fmt).ok

\* date_obj.strftime('%Y-%m-%d'); the C library decides whether a year
\* below 1000 is zero-padded
strftime(date_obj) ==
    (IF strftime_pads THEN ZeroPad(NumToDigits(date_obj.y), 4)
     ELSE NumToDigits(date_obj.y))
    \o <<"-">> \o ZeroPad(NumToDigits(date_obj.m), 2)
    \o <<"-">> \o ZeroPad(NumToDigits(date_obj.d), 2)

normalize_date(date_str) ==
    IF date_str = <<>> THEN date_str
    ELSE LET clean_date == split(date_str, " ")[1]
             hits == {k \in 1..Len(date_formats) :
                          _is_valid_date(clean_date, date_formats[k])}
         IN IF hits = {} THEN clean_date
            ELSE LET first == CHOOSE k \in hits : \A h \in hits : k <= h
                 IN strftime(strptime(clean_date, date_formats[first]))

----------------------------------------------------------------------------
(* data_importer.py: the record normalizer *)

\* the value returned by a normalizer: a transaction, None, or an exception
Raise(e) == [t |-> "raise", exc |-> e]

Transaction(date, amount, description) ==
    [t |-> "tx", date |-> date, amount |-> amount, description |-> description,
     type |-> IF amount.m >= 0 THEN "income" ELSE "expense"]

_get_first_matching_value(data_dict, fields) ==
    LET hits == {k \in 1..Len(fields) :
                     fields[k] \in DOMAIN data_dict /\ Truthy(data_dict[fields[k]])}
    IN IF hits = {} THEN <<>>
       ELSE str(data_dict[fields[CHOOSE k \in hits : \A h \in hits : k <= h]])

_is_float(value) ==
    IF value = <<>> THEN FALSE
    ELSE LET cleaned_value == replace(replace(value, ",", <<".">>), " ", <<>>)
             dot_count == count(cleaned_value, ".")
             numeric_chars == replace(replace(cleaned_value, ".", <<>>), "-", <<>>)
         IN /\ dot_count <= 1
            /\ isdigit(numeric_chars)
            /\ Len(numeric_chars) > 0
            /\ cleaned_value \notin {<<".">>, <<"-">>}

csv_debit_words == <<"debit", "ru_rashod", "ru_spisanie", "-">>

csv_credit_words == <<"credit", "ru_dohod", "ru_popolnenie", "+">>

any_word_in(words, s) == \E k \in 1..Len(words) : contains(s, words[k])

_determine_amount_sign(amount, row) ==
    LET sign_value ==
            lower(_get_first_matching_value(row, <<"type", "ru_tip", "debit/credit">>))
    IN IF any_word_in(csv_debit_words, sign_value) THEN NegAbs(amount)
       ELSE IF any_word_in(csv_credit_words, sign_value) THEN PosAbs(amount)
       ELSE amount

json_debit_words == <<"debit", "expense", "ru_rashod", "outcome">>

json_credit_words == <<"credit", "income", "ru_dohod", "revenue">>

_adjust_json_amount_sign(amount, item) ==
    IF "type" \notin DOMAIN item THEN amount
    ELSE LET trans_type == lower(str(item["type"]))
         IN IF any_word_in(json_debit_words, trans_type) THEN NegAbs(amount)
            ELSE IF any_word_in(json_credit_words, trans_type) THEN PosAbs(amount)
            ELSE amount

\* raw.pairs: the [k, v] pairs of one csv.DictReader row, in column order
normalize_csv_row(raw) ==
    IF \E j \in 1..Len(raw.pairs) : raw.pairs[j].k = NoneKey
    THEN Raise("AttributeError")       \* None.lower() in the key comprehension
    ELSE
    LET row == DictOf([j \in 1..Len(raw.pairs) |->
                          [k |-> LowerKey(raw.pairs[j].k), v |-> raw.pairs[j].v]])
        date_value ==
            _get_first_matching_value(row, <<"date", "ru_data", "data", "transaction_date">>)
        normalized_date == normalize_date(date_value)
        amount_value ==
            _get_first_matching_value(row, <<"amount", "ru_summa", "sum", "transaction_amount">>)
        parsed == float(replace(replace(amount_value, ",", <<".">>), " ", <<>>))
        found == _get_first_matching_value(
                     row, <<"description", "ru_opisanie", "comment", "ru_naznachenie", "merchant">>)
        description == IF found = <<>> THEN <<"No description">> ELSE found
    IN IF date_value = <<>> THEN None
       ELSE IF normalized_date = <<>> THEN None
       ELSE IF amount_value = <<>> \/ ~_is_float(amount_value) THEN None
       ELSE IF ~parsed.ok THEN Raise("ValueError")
       ELSE Transaction(normalized_date, _determine_amount_sign(parsed.val, row),
                        description)

\* item: one element of the JSON document; only an object is a dict
normalize_json_item(raw) ==
    IF raw.shape # "dict"
    THEN Raise("TypeError")            \* `field in item` on a number or null
    ELSE
    LET item == DictOf(raw.pairs)
        date_value ==
            _get_first_matching_value(item, <<"date", "ru_data", "transactionDate", "timestamp">>)
        normalized_date == normalize_date(date_value)
        amount_value ==
            _get_first_matching_value(item, <<"amount", "ru_summa", "sum", "value">>)
        parsed == float(replace(amount_value, ",", <<".">>))
        found == _get_first_matching_value(
                     item, <<"description", "ru_opisanie", "comment", "message", "details">>)
        description == IF found = <<>> THEN <<"No description">> ELSE found
    IN IF date_value = <<>> THEN None
       ELSE IF normalized_date = <<>> THEN None
       ELSE IF amount_value = <<>> \/ ~_is_float(amount_value) THEN None
       ELSE IF ~parsed.ok THEN Raise("ValueError")
       ELSE Transaction(normalized_date, _adjust_json_amount_sign(parsed.val, item),
                        description)

----------------------------------------------------------------------------
(* data_importer.py: the transaction importer, one action per file step *)

\* the records the file yields: json.load's list, or the one object wrapped
data_list == IF file.data.list THEN file.data.items ELSE <<file.data.items[1]>>

\* the values of a DictReader row, for any(row.values())
any_value(raw) ==
    LET row == DictOf(raw.pairs) IN \E k \in DOMAIN row : Truthy(row[k])

\* import_financial_data up to the reader's first record: the existence
\* check, the dispatch on the extension, and opening and decoding the file
ImportOpen ==
    /\ pc = "start"
    /\ IF ~file.exists \/ file.ext \notin {"csv", "json"}
       THEN /\ pc' = "done"
            /\ valid_transactions' = <<>>
            /\ UNCHANGED <<raw_data, exc>>
       ELSE IF file.ext = "csv" /\ file.content = "undecodable"
       THEN /\ pc' = "raised"
            /\ exc' = "UnicodeDecodeError"
            /\ UNCHANGED <<raw_data, valid_transactions>>
       ELSE IF file.ext = "json" /\ file.content # "ok"
       THEN /\ pc' = "filter"
            /\ raw_data' = <<>>
            /\ UNCHANGED <<valid_transactions, exc>>
       ELSE /\ pc' = IF Len(data_list) = 0 THEN "filter" ELSE "read"
            /\ raw_data' = <<>>
            /\ UNCHANGED <<valid_transactions, exc>>
    /\ UNCHANGED <<file, strftime_pads, i, norm>>
    /\ UNCHANGED <<catVars, statsVars, budgetVars, allVars, dateVars, mainVars>>

\* what one pass of a reader's list comprehension does with its result
Collect(result) ==
    /\ norm' = result
    /\ IF result.t = "raise"
       THEN /\ pc' = "raised"
            /\ exc' = result.exc
            /\ UNCHANGED <<i, raw_data>>
       ELSE /\ i' = i + 1
            /\ raw_data' = IF result.t = "tx" THEN Append(raw_data, result)
                           ELSE raw_data
            /\ pc' = IF i + 1 > Len(data_list) THEN "filter" ELSE "read"
            /\ UNCHANGED exc
    /\ UNCHANGED <<file, strftime_pads, valid_transactions>>
    /\ UNCHANGED <<catVars, statsVars, budgetVars, allVars, dateVars, mainVars>>

\* read_csv_file: one row of the comprehension
ReadCsvRow ==
    /\ pc = "read"
    /\ file.ext = "csv"
    /\ i <= Len(data_list)
    /\ Collect(IF any_value(data_list[i]) THEN normalize_csv_row(data_list[i])
               ELSE None)

\* read_json_file: one item of the comprehension
ReadJsonItem ==
    /\ pc = "read"
    /\ file.ext = "json"
    /\ i <= Len(data_list)
    /\ Collect(normalize_json_item(data_list[i]))

\* a filter that forgets the amount (a faulty variant of IsValidTransaction)
IsValidTransaction_NoAmountCheck(transaction) == transaction.date # <<>>

\* the filter of import_financial_data: a date and a non-zero amount
IsValidTransaction(transaction) ==
    transaction.date # <<>> /\ transaction.amount.m # 0

ImportFilter ==
    /\ pc = "filter"
    /\ valid_transactions' = SelectSeq(raw_data, IsValidTransaction)
    /\ pc' = "done"
    /\ UNCHANGED <<file, strftime_pads, i, norm, raw_data, exc>>
    /\ UNCHANGED <<catVars, statsVars, budgetVars, allVars, dateVars, mainVars>>

----------------------------------------------------------------------------
(* categorizer.py *)

\* k in s for strings k and s ('' is in every string)
IsSubstring(k, s) ==
    \E j \in 0..(Len(s) - Len(k)) : SubSeq(s, j + 1, j + Len(k)) = k

Punctuation == {".", "-", "numero"}

\* re.sub(r'[^\w\s]', ' ', s)
strip_punctuation(s) ==
    [k \in 1..Len(s) |-> IF s[k] \in Punctuation THEN " " ELSE s[k]]

NonEmpty(s) == s # <<>>

\* keyword.split(): the words between runs of blanks
split_words(s) == SelectSeq(split(s, " "), NonEmpty)

\* the fixed income list of categorize_transaction, in its order
income_categories == <<"zarplata", "premiya", "investicii", "podarki", "frilans">>

IncomeNames == {income_categories[k] : k \in 1..Len(income_categories)}

\* categories.keys(), in the dict's order, and categories[name]
keys(taxonomy) == [k \in 1..Len(taxonomy) |-> taxonomy[k].name]

keywords_of(taxonomy, name) ==
    taxonomy[CHOOSE k \in 1..Len(taxonomy) : taxonomy[k].name = name].keywords

\* the test of the income loop for one category
income_match(kws, desc_lower, desc_clean) ==
    \E k \in 1..Len(kws) :
        IsSubstring(kws[k], desc_lower) \/ IsSubstring(kws[k], desc_clean)

\* only the keyword as a whole is looked for (a faulty variant of
\* loose_match)
loose_match_WholeKeyword(kws, desc_lower, desc_clean) ==
    \E k \in 1..Len(kws) :
        IsSubstring(kws[k], desc_lower) \/ IsSubstring(kws[k], desc_clean)

\* the test of the first expense loop for one category
loose_match(kws, desc_lower, desc_clean) ==
    \E k \in 1..Len(kws) :
        \/ IsSubstring(kws[k], desc_lower)
        \/ IsSubstring(kws[k], desc_clean)
        \/ \E w \in 1..Len(split_words(kws[k])) :
              IsSubstring(split_words(kws[k])[w], desc_lower)
        \/ \E w \in 1..Len(split_words(kws[k])) :
              IsSubstring(split_words(kws[k])[w], desc_clean)

\* the test of the second expense loop for one category
all_parts_match(kws, desc_lower) ==
    \E k \in 1..Len(kws) :
        LET keyword_parts == split_words(kws[k])
        IN /\ Len(keyword_parts) > 1
           /\ \A w \in 1..Len(keyword_parts) : IsSubstring(keyword_parts[w], desc_lower)

\* for category in income_categories: if category in categories: ...
RECURSIVE search_income(_, _, _, _)
search_income(names, taxonomy, desc_lower, desc_clean) ==
    IF names = <<>> THEN "prochie dohody"
    ELSE IF /\ \E k \in 1..Len(taxonomy) : taxonomy[k].name = Head(names)
            /\ income_match(keywords_of(taxonomy, Head(names)), desc_lower, desc_clean)
         THEN Head(names)
         ELSE search_income(Tail(names), taxonomy, desc_lower, desc_clean)

\* the second expense loop, then the fallback
RECURSIVE search_all_parts(_, _, _)
search_all_parts(names, taxonomy, desc_lower) ==
    IF names = <<>> THEN "drugoe"
    ELSE IF all_parts_match(keywords_of(taxonomy, Head(names)), desc_lower)
         THEN Head(names)
         ELSE search_all_parts(Tail(names), taxonomy, desc_lower)

\* the first expense loop; `all` is the whole expense list for the second
RECURSIVE search_loose(_, _, _, _, _)
search_loose(names, all, taxonomy, desc_lower, desc_clean) ==
    IF names = <<>> THEN search_all_parts(all, taxonomy, desc_lower)
    ELSE IF loose_match(keywords_of(taxonomy, Head(names)), desc_lower, desc_clean)
         THEN Head(names)
         ELSE search_loose(Tail(names), all, taxonomy, desc_lower, desc_clean)

IsExpenseName(name) == name \notin IncomeNames

IsIncomeName(name) == name \in IncomeNames

\* no filter at all (a faulty variant of expense_categories)
expense_categories_Unfiltered(taxonomy) == keys(taxonomy)

\* [cat for cat in categories.keys() if cat not in income list]
expense_categories(taxonomy) == SelectSeq(keys(taxonomy), IsExpenseName)

\* income categories searched in the taxonomy's own key order (a faulty
\* variant of income_search_order)
income_search_order_ByKeys(taxonomy) ==
    SelectSeq(keys(taxonomy), IsIncomeName)

\* the order in which the income branch visits the categories
income_search_order(taxonomy) == income_categories

categorize_transaction(desc, amt, taxonomy) ==
    LET desc_lower == lower(desc)
        desc_clean == strip_punctuation(desc_lower)
    IN IF amt.m >= 0
       THEN search_income(income_search_order(taxonomy), taxonomy, desc_lower, desc_clean)
       ELSE search_loose(expense_categories(taxonomy), expense_categories(taxonomy),
                         taxonomy, desc_lower, desc_clean)

Categorize ==
    /\ cat_pc = "start"
    /\ category' = categorize_transaction(tx_description, tx_amount, categories)
    /\ cat_pc' = "done"
    /\ UNCHANGED <<tx_description, tx_amount, categories>>
    /\ UNCHANGED <<importVars, statsVars, budgetVars, allVars,
                   dateVars, mainVars>>

MaxDescLen == 3

DescAlphabet == {"a", "b", "A", " ", "."}

Descriptions == UNION {[1..n -> DescAlphabet] : n \in 0..MaxDescLen}

\* the categories a taxonomy of the model is built from: two income and two
\* expense categories whose keywords overlap, with a keyword of two words,
\* one with punctuation and one in upper case
BaseCategories ==
    { [name |-> "zarplata", keywords |-> << <<"a">> >>],
      [name |-> "premiya", keywords |-> << <<"b">>, <<"a", " ", "b">> >>],
      [name |-> "eda", keywords |-> << <<"a", " ", "b">> >>],
      [name |-> "transport", keywords |-> << <<"b", ".", "a">>, <<"A">> >>] }

\* every dict over the base categories: any subset, in any key order
Taxonomies ==
    {t \in UNION {[1..n -> BaseCategories] : n \in 0..Cardinality(BaseCategories)} :
        \A j, k \in 1..Len(t) : j # k => t[j].name # t[k].name}

CatAmounts == {[m |-> -5, d |-> 0], [m |-> 0, d |-> 0], [m |-> 5, d |-> 0]}

BudgetIdle ==
    /\ budget = None
    /\ actual_transactions = <<>>
    /\ analysis = None
    /\ comparison = None

StatsIdle ==
    /\ transactions = <<>>
    /\ stats = None
    /\ stats_pc = "idle"
    /\ category_stats = None

AllIdle ==
    /\ all_transactions = <<>>
    /\ categorized_transactions = None
    /\ calls = <<>>

\* the globals of main.py as the import of the module leaves them
MainIdle ==
    /\ main_transactions = <<>>
    /\ main_categorized_transactions = <<>>
    /\ main_stats = [t |-> "dict"]
    /\ main_category_stats = [t |-> "dict"]
    /\ main_budget_analysis = [t |-> "dict"]
    /\ main_budget_template = [t |-> "dict"]
    /\ main_pc = "idle"
    /\ main_output = None

DateIdle ==
    /\ date_given = <<>>
    /\ date_normalized = None
    /\ date_renormalized = None

CatIdle ==
    /\ tx_description = <<>>
    /\ tx_amount = [m |-> 0, d |-> 0]
    /\ categories = <<>>
    /\ category = "none"
    /\ cat_pc = "idle"

ImportOff ==
    /\ file = [exists |-> FALSE, ext |-> "txt", content |-> "ok",
               data |-> [list |-> TRUE, items |-> <<>>]]
    /\ strftime_pads = TRUE
    /\ pc = "idle"
    /\ i = 1
    /\ norm = [t |-> "idle"]
    /\ raw_data = <<>>
    /\ valid_transactions = <<>>
    /\ exc = "none"

InitCat ==
    /\ tx_description \in Descriptions
    /\ tx_amount \in CatAmounts
    /\ categories \in Taxonomies
    /\ category = "none"
    /\ cat_pc = "start"
    /\ ImportOff
    /\ StatsIdle
    /\ BudgetIdle
    /\ AllIdle
    /\ DateIdle
    /\ MainIdle

NextCat == Categorize

SpecCat == InitCat /\ [][NextCat]_vars

----------------------------------------------------------------------------
(* Python floats: IEEE 754 binary64, round to nearest, ties to even.
   A float is sign s, magnitude bits m (least significant first, lowest and
   highest bit 1, at most Precision bits) and exponent e of the lowest bit:
   its value is s * m * 2^e.  Zero is the empty magnitude. *)

Precision == 53

Zero == [s |-> 1, m |-> <<>>, e |-> 0]

Zeros(n) == [k \in 1..n |-> 0]

pad(a, n) == a \o Zeros(n - Len(a))

\* a + b + carry for bit strings of equal length: the carry into position
\* k comes from the nearest lower position where both bits are 1 (or from
\* the carry in) through positions where at least one bit is 1
add_bits(a, b, carry) ==
    LET n == Len(a)
        passes(j, k) == \A q \in j..k : a[q] + b[q] >= 1
        carry_into(k) ==
            IF \/ carry = 1 /\ passes(1, k - 1)
               \/ \E j \in 1..(k - 1) : a[j] + b[j] = 2 /\ passes(j + 1, k - 1)
            THEN 1 ELSE 0
    IN [k \in 1..(n + carry_into(n + 1)) |->
            IF k <= n THEN (a[k] + b[k] + carry_into(k)) % 2 ELSE 1]

\* a - b - borrow for bit strings of equal length, a >= b: the borrow into
\* position k comes from the nearest lower position where a has 0 and b has 1
\* (or from the borrow in) through positions where a's bit is not above b's
sub_bits(a, b, borrow) ==
    LET n == Len(a)
        passes(j, k) == \A q \in j..k : a[q] <= b[q]
        borrow_into(k) ==
            IF \/ borrow = 1 /\ passes(1, k - 1)
               \/ \E j \in 1..(k - 1) : a[j] < b[j] /\ passes(j + 1, k - 1)
            THEN 1 ELSE 0
    IN [k \in 1..n |-> (a[k] - b[k] - borrow_into(k)) % 2]

\* a < b for bit strings of equal length
less_bits(a, b) ==
    \E k \in 1..Len(a) : a[k] < b[k] /\ \A j \in (k + 1)..Len(a) : a[j] = b[j]

\* the position of the highest and of the lowest 1 (0 when there is none)
high_bit(a) ==
    IF \A k \in 1..Len(a) : a[k] = 0 THEN 0
    ELSE CHOOSE k \in 1..Len(a) : a[k] = 1 /\ \A j \in (k + 1)..Len(a) : a[j] = 0

low_bit(a) ==
    IF \A k \in 1..Len(a) : a[k] = 0 THEN 0
    ELSE CHOOSE k \in 1..Len(a) : a[k] = 1 /\ \A j \in 1..(k - 1) : a[j] = 0

\* the float nearest to the exact value s * bits * 2^e
round_to_float(s, bits, e) ==
    LET h == high_bit(bits)
    IN IF h = 0 THEN Zero
       ELSE LET drop == IF h > Precision THEN h - Precision ELSE 0
                kept == SubSeq(bits, drop + 1, h)
                half == drop > 0 /\ bits[drop] = 1
                sticky == \E k \in 1..(drop - 1) : bits[k] = 1
                up == half /\ (sticky \/ kept[1] = 1)
                rounded == IF up THEN add_bits(kept, Zeros(Len(kept)), 1) ELSE kept
                l == low_bit(rounded)
            IN [s |-> s, m |-> SubSeq(rounded, l, Len(rounded)), e |-> e + drop + l - 1]

\* the magnitudes of x and y over a common exponent, with equal length
aligned(x, y) ==
    LET e == IF x.m = <<>> THEN y.e ELSE IF y.m = <<>> \/ x.e < y.e THEN x.e ELSE y.e
        a == IF x.m = <<>> THEN <<>> ELSE Zeros(x.e - e) \o x.m
        b == IF y.m = <<>> THEN <<>> ELSE Zeros(y.e - e) \o y.m
        n == IF Len(a) > Len(b) THEN Len(a) ELSE Len(b)
    IN [a |-> pad(a, n), b |-> pad(b, n), e |-> e]

\* x + y
fadd(x, y) ==
    LET al == aligned(x, y)
    IN IF x.s = y.s THEN round_to_float(x.s, add_bits(al.a, al.b, 0), al.e)
       ELSE IF less_bits(al.a, al.b) THEN round_to_float(y.s, sub_bits(al.b, al.a, 0), al.e)
       ELSE round_to_float(x.s, sub_bits(al.a, al.b, 0), al.e)

\* -x and abs(x)
fneg(x) == IF x.m = <<>> THEN Zero ELSE [x EXCEPT !.s = -x.s]

fabs(x) == [x EXCEPT !.s = 1]

\* x - y
fsub(x, y) == fadd(x, fneg(y))

\* x < y and x >= 0
flt(x, y) ==
    LET al == aligned(x, y)
    IN IF x.s # y.s THEN x.s < y.s
       ELSE IF x.s = 1 THEN less_bits(al.a, al.b)
       ELSE less_bits(al.b, al.a)

fge0(x) == x.s = 1

HexDigits == <<"0", "1", "2", "3", "4", "5", "6", "7", "8", "9",
               "a", "b", "c", "d", "e", "f">>

HexVal(c) == (CHOOSE k \in 1..Len(HexDigits) : HexDigits[k] = c) - 1

\* the four bits of a hex digit, least significant first
HexBits(c) ==
    LET v == HexVal(c)
    IN <<v % 2, (v \div 2) % 2, (v \div 4) % 2, (v \div 8) % 2>>

RECURSIVE hex_to_bits(_)
hex_to_bits(digits) ==
    IF digits = <<>> THEN <<>>
    ELSE hex_to_bits(Tail(digits)) \o HexBits(Head(digits))

\* float.fromhex('[-]0xH.HHHHHHHHHHHHHp[+-]P'), digits being H and the 13 H
fromhex(s, digits, p) ==
    round_to_float(s, hex_to_bits(digits), p - 4 * (Len(digits) - 1))

\* the bits of the integer n >= 0, least significant first, and back
RECURSIVE bits_of(_)
bits_of(n) == IF n = 0 THEN <<>> ELSE <<n % 2>> \o bits_of(n \div 2)

RECURSIVE int_of(_)
int_of(bits) == IF bits = <<>> THEN 0 ELSE Head(bits) + 2 * int_of(Tail(bits))

reversed(a) == [k \in 1..Len(a) |-> a[Len(a) + 1 - k]]

\* a bit string as digits of base 2^LimbBits, least significant first
LimbBits == 12

LimbBase == 4096

RECURSIVE limbs_of(_)
limbs_of(bits) ==
    IF bits = <<>> THEN <<>>
    ELSE IF Len(bits) <= LimbBits THEN <<int_of(bits)>>
    ELSE <<int_of(SubSeq(bits, 1, LimbBits))>>
             \o limbs_of(SubSeq(bits, LimbBits + 1, Len(bits)))

RECURSIVE bits_of_limbs(_)
bits_of_limbs(limbs) ==
    IF limbs = <<>> THEN <<>>
    ELSE pad(bits_of(Head(limbs)), LimbBits) \o bits_of_limbs(Tail(limbs))

\* long division of a number given by its digits, most significant first,
\* by den: the quotient's digits, least significant first, and what is left
RECURSIVE divide_limbs(_, _, _, _)
divide_limbs(msd_first, den, remainder, quotient) ==
    IF msd_first = <<>> THEN [quotient |-> quotient, remainder |-> remainder]
    ELSE LET r == remainder * LimbBase + Head(msd_first)
         IN divide_limbs(Tail(msd_first), den, r % den, <<r \div den>> \o quotient)

\* the float nearest to num / den, den > 0: the quotient is carried to
\* GuardBits bits behind the point, and a bit in front of it tells whether a
\* remainder is left, before it is rounded
GuardBits == 72

float_of_ratio(num, den) ==
    LET magnitude == bits_of(IF num < 0 THEN -num ELSE num)
        divided == divide_limbs(reversed(limbs_of(Zeros(GuardBits) \o magnitude)),
                                den, 0, <<>>)
    IN round_to_float(IF num < 0 THEN -1 ELSE 1,
                      <<IF divided.remainder = 0 THEN 0 ELSE 1>>
                          \o bits_of_limbs(divided.quotient),
                      -(GuardBits + 1))

\* the sum of a[j] * b[c + 1 - j] over the digits that exist
RECURSIVE column(_, _, _, _)
column(a, b, c, j) ==
    IF j > Len(a) THEN 0
    ELSE (IF c + 1 - j \in 1..Len(b) THEN a[j] * b[c + 1 - j] ELSE 0)
         + column(a, b, c, j + 1)

RECURSIVE carry_limbs(_, _)
carry_limbs(columns, carry) ==
    IF columns = <<>> THEN (IF carry = 0 THEN <<>> ELSE <<carry>>)
    ELSE <<(Head(columns) + carry) % LimbBase>>
             \o carry_limbs(Tail(columns), (Head(columns) + carry) \div LimbBase)

\* a * b for bit strings
mul_bits(a, b) ==
    LET x == limbs_of(a)
        y == limbs_of(b)
    IN bits_of_limbs(carry_limbs([c \in 1..(Len(x) + Len(y)) |-> column(x, y, c, 1)], 0))

\* x * y
fmul(x, y) ==
    IF x.m = <<>> \/ y.m = <<>> THEN Zero
    ELSE round_to_float(x.s * y.s, mul_bits(x.m, y.m), x.e + y.e)

\* round(x, 2) in hundredths: the integer nearest to 100 * x, ties to the
\* even one
round2(x) ==
    IF x.m = <<>> THEN 0
    ELSE LET scaled == Zeros(IF x.e > 0 THEN x.e ELSE 0) \o mul_bits(x.m, bits_of(100))
             behind == IF x.e < 0 THEN -x.e ELSE 0
             whole == IF behind >= Len(scaled) THEN 0
                      ELSE int_of(SubSeq(scaled, behind + 1, Len(scaled)))
             half == behind >= 1 /\ behind <= Len(scaled) /\ scaled[behind] = 1
             sticky == \E k \in 1..(behind - 1) : k <= Len(scaled) /\ scaled[k] = 1
             up == half /\ (sticky \/ whole % 2 = 1)
         IN x.s * (IF up THEN whole + 1 ELSE whole)

----------------------------------------------------------------------------
(* analyzer.py *)

\* dict.get(key, default) of a transaction
get(transaction, key, default) ==
    IF key \in DOMAIN transaction THEN transaction[key] ELSE default

\* the loop over the transactions: income, expenses and the expense list
RECURSIVE accumulate(_, _)
accumulate(list, acc) ==
    IF list = <<>> THEN acc
    ELSE LET transaction == Head(list)
         IN accumulate(Tail(list),
                IF fge0(transaction.amount)
                THEN [acc EXCEPT !.income = fadd(@, transaction.amount)]
                ELSE [acc EXCEPT !.expenses = fadd(@, transaction.amount),
                                 !.largest_expenses = Append(@, transaction)])

\* list.sort(key=amount): stable, ascending
RECURSIVE insert_sorted(_, _)
insert_sorted(sorted, transaction) ==
    IF sorted = <<>> THEN <<transaction>>
    ELSE IF flt(transaction.amount, Head(sorted).amount) THEN <<transaction>> \o sorted
    ELSE <<Head(sorted)>> \o insert_sorted(Tail(sorted), transaction)

RECURSIVE sort_by_amount(_)
sort_by_amount(list) ==
    IF list = <<>> THEN <<>>
    ELSE insert_sorted(sort_by_amount(SubSeq(list, 1, Len(list) - 1)), list[Len(list)])

\* the whole list (a faulty variant of first_five)
first_five_Untruncated(list) == list

\* largest_expenses[:5]
first_five(list) == SubSeq(list, 1, IF Len(list) < 5 THEN Len(list) ELSE 5)

\* the month loop: monthly_stats as its items in insertion order
RECURSIVE month_loop(_, _)
month_loop(list, monthly_stats) ==
    IF list = <<>> THEN monthly_stats
    ELSE LET transaction == Head(list)
             date_str == transaction.date
             month_key == SubSeq(date_str, 1, 7)
             present == \E k \in 1..Len(monthly_stats) : monthly_stats[k].key = month_key
             opened == IF present THEN monthly_stats
                       ELSE Append(monthly_stats,
                                   [key |-> month_key, income |-> Zero,
                                    expenses |-> Zero, balance |-> Zero])
             at == CHOOSE k \in 1..Len(opened) : opened[k].key = month_key
             added == IF fge0(transaction.amount)
                      THEN [opened EXCEPT ![at].income = fadd(@, transaction.amount)]
                      ELSE [opened EXCEPT ![at].expenses = fadd(@, transaction.amount)]
             closed == [added EXCEPT ![at].balance = fadd(added[at].income, added[at].expenses)]
         IN month_loop(Tail(list), IF Len(date_str) >= 7 THEN closed ELSE monthly_stats)

\* the sum of the magnitudes (a faulty variant of balance_sum)
balance_sum_OfMagnitudes(income, expenses) == fadd(income, fabs(expenses))

\* balance = income + expenses
balance_sum(income, expenses) == fadd(income, expenses)

calculate_basic_stats(list) ==
    LET acc == accumulate(list, [income |-> Zero, expenses |-> Zero,
                                 largest_expenses |-> <<>>])
    IN [total_income |-> acc.income,
        total_expenses |-> fabs(acc.expenses),
        balance |-> balance_sum(acc.income, acc.expenses),
        transaction_count |-> Len(list),
        largest_expenses |-> first_five(sort_by_amount(acc.largest_expenses)),
        monthly_stats |-> month_loop(list, <<>>)]

CalculateBasicStats ==
    /\ stats_pc = "start"
    /\ stats' = calculate_basic_stats(transactions)
    /\ stats_pc' = "done"
    /\ UNCHANGED <<transactions, category_stats>>
    /\ UNCHANGED <<importVars, catVars, budgetVars, allVars,
                   dateVars, mainVars>>

\* a dict of sums as its items in insertion order: the position of a key,
\* or 0
bucket(items, key) ==
    IF \E k \in 1..Len(items) : items[k].category = key
    THEN CHOOSE k \in 1..Len(items) : items[k].category = key
    ELSE 0

\* the sum overwritten by the amount (a faulty variant of add_to_bucket)
add_to_bucket_Overwriting(total, amount) == amount

\* by_category[category] += amount
add_to_bucket(total, amount) == fadd(total, amount)

\* if category not in by_category: by_category[category] = 0, then +=
add_amount(by_category, key, amount) ==
    LET opened == IF bucket(by_category, key) = 0
                  THEN Append(by_category, [category |-> key, amount |-> Zero])
                  ELSE by_category
        at == bucket(opened, key)
    IN [opened EXCEPT ![at].amount = add_to_bucket(@, amount)]

\* the loop of calculate_by_category: amount < 0 is an expense
RECURSIVE category_loop(_, _)
category_loop(list, acc) ==
    IF list = <<>> THEN acc
    ELSE LET transaction == Head(list)
             key == get(transaction, "category", "drugoe")
         IN category_loop(Tail(list),
                IF flt(transaction.amount, Zero)
                THEN [acc EXCEPT !.expenses_by_category =
                                     add_amount(@, key, transaction.amount)]
                ELSE [acc EXCEPT !.income_by_category =
                                     add_amount(@, key, transaction.amount)])

calculate_by_category(list) ==
    category_loop(list, [expenses_by_category |-> <<>>, income_by_category |-> <<>>])

CalculateByCategory ==
    /\ stats_pc \in {"start", "done"}
    /\ category_stats = None
    /\ category_stats' = calculate_by_category(transactions)
    /\ UNCHANGED <<transactions, stats, stats_pc>>
    /\ UNCHANGED <<importVars, catVars, budgetVars, allVars,
                   dateVars, mainVars>>

----------------------------------------------------------------------------
(* categorizer.py: the built-in taxonomy and categorize_all_transactions *)

\* create_categories(): the taxonomy in its key order, each keyword a
\* string of characters
create_categories ==
    <<
      [name |-> "eda",
       keywords |->
         <<<<"ru_p", "ru_ya", "ru_t", "ru_e", "ru_r", "ru_o", "ru_ch", "ru_k", "ru_a">>,
            <<"ru_m", "ru_a", "ru_g", "ru_n", "ru_i", "ru_t">>,
            <<"ru_p", "ru_e", "ru_r", "ru_e", "ru_k", "ru_r", "ru_e", "ru_s", "ru_t", "ru_o", "ru_k">>,
            <<"ru_a", "ru_sh", "ru_a", "ru_n">>, <<"ru_l", "ru_e", "ru_n", "ru_t", "ru_a">>,
            <<"ru_p", "ru_r", "ru_o", "ru_d", "ru_u", "ru_k", "ru_t", "ru_y">>,
            <<"ru_e", "ru_d", "ru_a">>,
            <<"ru_p", "ru_r", "ru_o", "ru_d", "ru_u", "ru_k", "ru_t", "ru_o", "ru_v", "ru_y", "ru_j">>,
            <<"ru_s", "ru_u", "ru_p", "ru_e", "ru_r", "ru_m", "ru_a", "ru_r", "ru_k", "ru_e", "ru_t">>,
            <<"ru_o", "ru_v", "ru_o", "ru_sch", "ru_i">>,
            <<"ru_f", "ru_r", "ru_u", "ru_k", "ru_t", "ru_y">>,
            <<"ru_m", "ru_o", "ru_l", "ru_o", "ru_k", "ru_o">>,
            <<"ru_h", "ru_l", "ru_e", "ru_b">>, <<"ru_m", "ru_ya", "ru_s", "ru_o">>,
            <<"ru_r", "ru_y", "ru_b", "ru_a">>,
            <<"ru_k", "ru_u", "ru_r", "ru_o", "ru_ch", "ru_k", "ru_a">>,
            <<"ru_g", "ru_a", "ru_s", "ru_t", "ru_r", "ru_o", "ru_n", "ru_o", "ru_m">>,
            <<"ru_b", "ru_a", "ru_k", "ru_a", "ru_l", "ru_e", "ru_ya">>,
            <<"ru_s", "ru_p", "ru_a", "ru_r">>>>],
      [name |-> "transport",
       keywords |->
         <<<<"ru_m", "ru_e", "ru_t", "ru_r", "ru_o">>,
            <<"ru_a", "ru_v", "ru_t", "ru_o", "ru_b", "ru_u", "ru_s">>,
            <<"ru_t", "ru_a", "ru_k", "ru_s", "ru_i">>,
            <<"ru_b", "ru_e", "ru_n", "ru_z", "ru_i", "ru_n">>,
            <<"ru_z", "ru_a", "ru_p", "ru_r", "ru_a", "ru_v", "ru_k", "ru_a">>,
            <<"ru_t", "ru_r", "ru_a", "ru_n", "ru_s", "ru_p", "ru_o", "ru_r", "ru_t">>,
            <<"ru_p", "ru_r", "ru_o", "ru_e", "ru_z", "ru_d">>,
            <<"ru_k", "ru_a", "ru_r", "ru_sh", "ru_e", "ru_r", "ru_i", "ru_n", "ru_g">>,
            <<"ru_ya", "ru_n", "ru_d", "ru_e", "ru_k", "ru_s", ".", "ru_t", "ru_a", "ru_k", "ru_s", "ru_i">>,
            <<"u", "b", "e", "r">>,
            <<"ru_s", "ru_i", "ru_t", "ru_i", "ru_m", "ru_o", "ru_b", "ru_i", "ru_l">>,
            <<"ru_t", "ru_r", "ru_a", "ru_n", "ru_s", "ru_p", "ru_o", "ru_r", "ru_t", "ru_n", "ru_a", "ru_ya", " ", "ru_k", "ru_a", "ru_r", "ru_t", "ru_a">>,
            <<"ru_p", "ru_a", "ru_r", "ru_k", "ru_o", "ru_v", "ru_k", "ru_a">>,
            <<"ru_sh", "ru_t", "ru_r", "ru_a", "ru_f", " ", "ru_g", "ru_i", "ru_b", "ru_d", "ru_d">>>>],
      [name |-> "razvlecheniya",
       keywords |->
         <<<<"ru_k", "ru_i", "ru_n", "ru_o">>,
            <<"ru_r", "ru_e", "ru_s", "ru_t", "ru_o", "ru_r", "ru_a", "ru_n">>,
            <<"ru_k", "ru_a", "ru_f", "ru_e">>,
            <<"ru_k", "ru_o", "ru_n", "ru_c", "ru_e", "ru_r", "ru_t">>,
            <<"ru_b", "ru_a", "ru_r">>, <<"ru_p", "ru_a", "ru_b">>,
            <<"ru_k", "ru_l", "ru_u", "ru_b">>, <<"ru_b", "ru_i", "ru_l", "ru_e", "ru_t">>,
            <<"ru_i", "ru_g", "ru_r", "ru_a">>, <<"ru_h", "ru_o", "ru_b", "ru_b", "ru_i">>,
            <<"ru_r", "ru_a", "ru_z", "ru_v", "ru_l", "ru_e", "ru_ch", "ru_e", "ru_n", "ru_i", "ru_ya">>,
            <<"ru_t", "ru_e", "ru_a", "ru_t", "ru_r">>,
            <<"ru_v", "ru_y", "ru_s", "ru_t", "ru_a", "ru_v", "ru_k", "ru_a">>,
            <<"ru_m", "ru_u", "ru_z", "ru_e", "ru_j">>,
            <<"ru_b", "ru_o", "ru_u", "ru_l", "ru_i", "ru_n", "ru_g">>,
            <<"ru_k", "ru_a", "ru_r", "ru_a", "ru_o", "ru_k", "ru_e">>,
            <<"ru_k", "ru_o", "ru_f", "ru_e", "ru_j", "ru_n", "ru_ya">>,
            <<"ru_s", "ru_t", "ru_e", "ru_j", "ru_k", "ru_h", "ru_a", "ru_u", "ru_s">>,
            <<"ru_s", "ru_u", "ru_sh", "ru_i">>>>],
      [name |-> "zdorovye",
       keywords |->
         <<<<"ru_a", "ru_p", "ru_t", "ru_e", "ru_k", "ru_a">>,
            <<"ru_v", "ru_r", "ru_a", "ru_ch">>,
            <<"ru_b", "ru_o", "ru_l", "ru_soft", "ru_n", "ru_i", "ru_c", "ru_a">>,
            <<"ru_l", "ru_e", "ru_k", "ru_a", "ru_r", "ru_s", "ru_t", "ru_v", "ru_a">>,
            <<"ru_m", "ru_e", "ru_d", "ru_i", "ru_c", "ru_i", "ru_n", "ru_a">>,
            <<"ru_s", "ru_t", "ru_o", "ru_m", "ru_a", "ru_t", "ru_o", "ru_l", "ru_o", "ru_g">>,
            <<"ru_p", "ru_o", "ru_l", "ru_i", "ru_k", "ru_l", "ru_i", "ru_n", "ru_i", "ru_k", "ru_a">>,
            <<"ru_a", "ru_n", "ru_a", "ru_l", "ru_i", "ru_z", "ru_y">>,
            <<"ru_m", "ru_e", "ru_d", "ru_c", "ru_e", "ru_n", "ru_t", "ru_r">>,
            <<"ru_v", "ru_i", "ru_t", "ru_a", "ru_m", "ru_i", "ru_n", "ru_y">>,
            <<"ru_s", "ru_p", "ru_o", "ru_r", "ru_t", "ru_z", "ru_a", "ru_l">>,
            <<"ru_f", "ru_i", "ru_t", "ru_n", "ru_e", "ru_s">>>>],
      [name |-> "kommunalka",
       keywords |->
         <<<<"ru_k", "ru_v", "ru_a", "ru_r", "ru_t", "ru_p", "ru_l", "ru_a", "ru_t", "ru_a">>,
            <<"ru_eh", "ru_l", "ru_e", "ru_k", "ru_t", "ru_r", "ru_i", "ru_ch", "ru_e", "ru_s", "ru_t", "ru_v", "ru_o">>,
            <<"ru_v", "ru_o", "ru_d", "ru_a">>, <<"ru_g", "ru_a", "ru_z">>,
            <<"ru_i", "ru_n", "ru_t", "ru_e", "ru_r", "ru_n", "ru_e", "ru_t">>,
            <<"ru_t", "ru_e", "ru_l", "ru_e", "ru_f", "ru_o", "ru_n">>,
            <<"ru_s", "ru_v", "ru_ya", "ru_z", "ru_soft">>, <<"ru_zh", "ru_k", "ru_h">>,
            <<"ru_k", "ru_o", "ru_m", "ru_m", "ru_u", "ru_n", "ru_a", "ru_l", "ru_soft", "ru_n", "ru_y", "ru_e">>,
            <<"ru_a", "ru_r", "ru_e", "ru_n", "ru_d", "ru_a">>,
            <<"ru_i", "ru_p", "ru_o", "ru_t", "ru_e", "ru_k", "ru_a">>,
            <<"ru_r", "ru_k", "ru_o">>,
            <<"ru_d", "ru_o", "ru_m", "ru_o", "ru_f", "ru_o", "ru_n">>>>],
      [name |-> "odezhda",
       keywords |->
         <<<<"ru_o", "ru_d", "ru_e", "ru_zh", "ru_d", "ru_a">>,
            <<"ru_o", "ru_b", "ru_u", "ru_v", "ru_soft">>,
            <<"ru_m", "ru_a", "ru_g", "ru_a", "ru_z", "ru_i", "ru_n">>,
            <<"ru_b", "ru_u", "ru_t", "ru_i", "ru_k">>,
            <<"ru_sh", "ru_o", "ru_p", "ru_i", "ru_n", "ru_g">>,
            <<"ru_b", "ru_r", "ru_e", "ru_n", "ru_d">>, <<"z", "a", "r", "a">>, <<"h", "m">>,
            <<"ru_r", "ru_e", "ru_z", "ru_e", "ru_r", "ru_v">>,
            <<"ru_l", "ru_a", "ru_m", "ru_i", "ru_n", "ru_i", "ru_ya">>,
            <<"ru_o", "ru_b", "ru_u", "ru_v", "ru_n", "ru_o", "ru_j">>,
            <<"ru_a", "ru_t", "ru_e", "ru_l", "ru_soft", "ru_e">>,
            <<"ru_t", "ru_r", "ru_i", "ru_k", "ru_o", "ru_t", "ru_a", "ru_zh">>>>],
      [name |-> "obrazovanie",
       keywords |->
         <<<<"ru_k", "ru_u", "ru_r", "ru_s", "ru_y">>,
            <<"ru_u", "ru_ch", "ru_e", "ru_b", "ru_a">>,
            <<"ru_o", "ru_b", "ru_r", "ru_a", "ru_z", "ru_o", "ru_v", "ru_a", "ru_n", "ru_i", "ru_e">>,
            <<"ru_k", "ru_n", "ru_i", "ru_g", "ru_i">>,
            <<"ru_u", "ru_ch", "ru_e", "ru_b", "ru_n", "ru_i", "ru_k">>,
            <<"ru_r", "ru_e", "ru_p", "ru_e", "ru_t", "ru_i", "ru_t", "ru_o", "ru_r">>,
            <<"ru_sh", "ru_k", "ru_o", "ru_l", "ru_a">>,
            <<"ru_u", "ru_n", "ru_i", "ru_v", "ru_e", "ru_r", "ru_s", "ru_i", "ru_t", "ru_e", "ru_t">>,
            <<"ru_o", "ru_n", "ru_l", "ru_a", "ru_j", "ru_n", "-", "ru_k", "ru_u", "ru_r", "ru_s">>,
            <<"ru_l", "ru_i", "ru_t", "ru_e", "ru_r", "ru_a", "ru_t", "ru_u", "ru_r", "ru_a">>,
            <<"ru_k", "ru_a", "ru_n", "ru_c", "ru_e", "ru_l", "ru_ya", "ru_r", "ru_i", "ru_ya">>>>],
      [name |-> "tehnika",
       keywords |->
         <<<<"ru_t", "ru_e", "ru_h", "ru_n", "ru_i", "ru_k", "ru_a">>,
            <<"ru_eh", "ru_l", "ru_e", "ru_k", "ru_t", "ru_r", "ru_o", "ru_n", "ru_i", "ru_k", "ru_a">>,
            <<"ru_s", "ru_m", "ru_a", "ru_r", "ru_t", "ru_f", "ru_o", "ru_n">>,
            <<"ru_n", "ru_o", "ru_u", "ru_t", "ru_b", "ru_u", "ru_k">>,
            <<"ru_k", "ru_o", "ru_m", "ru_p", "ru_soft", "ru_yu", "ru_t", "ru_e", "ru_r">>,
            <<"ru_t", "ru_e", "ru_l", "ru_e", "ru_v", "ru_i", "ru_z", "ru_o", "ru_r">>,
            <<"d", "n", "s">>, <<"ru_m", ".", "ru_v", "ru_i", "ru_d", "ru_e", "ru_o">>,
            <<"ru_s", "ru_i", "ru_t", "ru_i", "ru_l", "ru_i", "ru_n", "ru_k">>,
            <<"ru_g", "ru_a", "ru_d", "ru_zh", "ru_e", "ru_t">>,
            <<"ru_a", "ru_k", "ru_s", "ru_e", "ru_s", "ru_s", "ru_u", "ru_a", "ru_r">>>>],
      [name |-> "krasota",
       keywords |->
         <<<<"ru_p", "ru_a", "ru_r", "ru_i", "ru_k", "ru_m", "ru_a", "ru_h", "ru_e", "ru_r">>,
            <<"ru_s", "ru_a", "ru_l", "ru_o", "ru_n">>,
            <<"ru_k", "ru_o", "ru_s", "ru_m", "ru_e", "ru_t", "ru_i", "ru_k", "ru_a">>,
            <<"ru_k", "ru_o", "ru_s", "ru_m", "ru_e", "ru_t", "ru_o", "ru_l", "ru_o", "ru_g">>,
            <<"ru_m", "ru_a", "ru_n", "ru_i", "ru_k", "ru_yu", "ru_r">>,
            <<"ru_s", "ru_t", "ru_r", "ru_i", "ru_zh", "ru_k", "ru_a">>, <<"s", "p", "a">>,
            <<"ru_u", "ru_h", "ru_o", "ru_d">>,
            <<"ru_p", "ru_a", "ru_r", "ru_f", "ru_yu", "ru_m", "ru_e", "ru_r", "ru_i", "ru_ya">>,
            <<"ru_r", "ru_i", "ru_v", " ", "ru_g", "ru_o", "ru_sh">>,
            <<"ru_l", "ru_e", "ru_n", "ru_d", "ru_r", "ru_i">>>>],
      [name |-> "zarplata",
       keywords |->
         <<<<"ru_z", "ru_a", "ru_r", "ru_p", "ru_l", "ru_a", "ru_t", "ru_a">>,
            <<"ru_o", "ru_k", "ru_l", "ru_a", "ru_d">>,
            <<"ru_a", "ru_v", "ru_a", "ru_n", "ru_s">>,
            <<"ru_z", "ru_a", "ru_r", "ru_a", "ru_b", "ru_o", "ru_t", "ru_n", "ru_a", "ru_ya">>,
            <<"ru_z", "ru_p">>, <<"p", "a", "y", "r", "o", "l", "l">>,
            <<"ru_n", "ru_a", "ru_ch", "ru_i", "ru_s", "ru_l", "ru_e", "ru_n", "ru_i", "ru_e", " ", "ru_z", "ru_p">>,
            <<"ru_r", "ru_a", "ru_s", "ru_ch", "ru_e", "ru_t", "ru_n", "ru_y", "ru_j", " ", "ru_s", "ru_ch", "ru_e", "ru_t">>>>],
      [name |-> "premiya",
       keywords |->
         <<<<"ru_p", "ru_r", "ru_e", "ru_m", "ru_i", "ru_ya">>,
            <<"ru_b", "ru_o", "ru_n", "ru_u", "ru_s">>,
            <<"ru_p", "ru_o", "ru_o", "ru_sch", "ru_r", "ru_e", "ru_n", "ru_i", "ru_e">>,
            <<"ru_v", "ru_o", "ru_z", "ru_n", "ru_a", "ru_g", "ru_r", "ru_a", "ru_zh", "ru_d", "ru_e", "ru_n", "ru_i", "ru_e">>,
            <<"k", "p", "i">>>>],
      [name |-> "investicii",
       keywords |->
         <<<<"ru_d", "ru_i", "ru_v", "ru_i", "ru_d", "ru_e", "ru_n", "ru_d", "ru_y">>,
            <<"ru_p", "ru_r", "ru_o", "ru_c", "ru_e", "ru_n", "ru_t", "ru_y">>,
            <<"ru_i", "ru_n", "ru_v", "ru_e", "ru_s", "ru_t", "ru_i", "ru_c", "ru_i", "ru_i">>,
            <<"ru_v", "ru_k", "ru_l", "ru_a", "ru_d">>,
            <<"ru_d", "ru_e", "ru_p", "ru_o", "ru_z", "ru_i", "ru_t">>,
            <<"ru_a", "ru_k", "ru_c", "ru_i", "ru_i">>,
            <<"ru_o", "ru_b", "ru_l", "ru_i", "ru_g", "ru_a", "ru_c", "ru_i", "ru_i">>,
            <<"ru_k", "ru_u", "ru_p", "ru_o", "ru_n">>,
            <<"ru_i", "ru_n", "ru_v", "ru_e", "ru_s", "ru_t">>>>],
      [name |-> "podarki",
       keywords |->
         <<<<"ru_p", "ru_o", "ru_d", "ru_a", "ru_r", "ru_o", "ru_k">>,
            <<"ru_s", "ru_yu", "ru_r", "ru_p", "ru_r", "ru_i", "ru_z">>,
            <<"ru_p", "ru_o", "ru_z", "ru_d", "ru_r", "ru_a", "ru_v", "ru_l", "ru_e", "ru_n", "ru_i", "ru_e">>,
            <<"ru_p", "ru_e", "ru_r", "ru_e", "ru_v", "ru_o", "ru_d">>,
            <<"ru_o", "ru_t", " ", "ru_d", "ru_r", "ru_u", "ru_g", "ru_a">>>>],
      [name |-> "frilans",
       keywords |->
         <<<<"ru_f", "ru_r", "ru_i", "ru_l", "ru_a", "ru_n", "ru_s">>,
            <<"ru_p", "ru_r", "ru_o", "ru_e", "ru_k", "ru_t">>,
            <<"ru_u", "ru_d", "ru_a", "ru_l", "ru_e", "ru_n", "ru_n", "ru_a", "ru_ya", " ", "ru_r", "ru_a", "ru_b", "ru_o", "ru_t", "ru_a">>,
            <<"ru_z", "ru_a", "ru_k", "ru_a", "ru_z">>,
            <<"ru_i", "ru_s", "ru_p", "ru_o", "ru_l", "ru_n", "ru_e", "ru_n", "ru_i", "ru_e">>>>]
    >>

\* the given dict itself (a faulty variant of dict_copy)
dict_copy_Alias(transaction) == [fresh |-> FALSE, items |-> transaction]

\* transaction.copy(): a new dict with the items of the given one.  `fresh`
\* tells that a write to the copy leaves the given dict as it was.
dict_copy(transaction) == [fresh |-> TRUE, items |-> transaction]

\* d[key] = value
set_item(d, key, value) ==
    [k \in DOMAIN d \cup {key} |-> IF k = key THEN value ELSE d[k]]

\* one turn of the loop: the dict that is appended, and the dict of the
\* list given as the turn leaves it
categorize_one(transaction) ==
    LET categorized_transaction == dict_copy(transaction)
        desc == get(categorized_transaction.items, "description", <<>>)
        amt == get(categorized_transaction.items, "amount", [m |-> 0, d |-> 0])
        label == categorize_transaction(desc, amt, create_categories)
        written == set_item(categorized_transaction.items, "category", label)
    IN [appended |-> written,
        given |-> IF categorized_transaction.fresh THEN transaction ELSE written]

categorize_all_transactions(list) ==
    [categorized_transactions |->
         [k \in 1..Len(list) |-> categorize_one(list[k]).appended],
     transactions |-> [k \in 1..Len(list) |-> categorize_one(list[k]).given]]

CategorizeAll ==
    /\ categorized_transactions = None
    /\ categorized_transactions' =
           ListV(categorize_all_transactions(all_transactions).categorized_transactions)
    /\ all_transactions' = categorize_all_transactions(all_transactions).transactions
    /\ UNCHANGED calls
    /\ UNCHANGED <<importVars, catVars, statsVars, budgetVars,
                   dateVars, mainVars>>

\* the label of the call before, if there was one (a faulty variant of
\* label_of_call)
label_of_call_Remembered(desc, amt, taxonomy, earlier) ==
    IF earlier = <<>> THEN StrV(categorize_transaction(desc, amt, taxonomy))
    ELSE earlier[Len(earlier)].result

\* what categorize_transaction returns when the calls `earlier` were made
\* before: it reads its three arguments and no global of the module
label_of_call(desc, amt, taxonomy, earlier) ==
    StrV(categorize_transaction(desc, amt, taxonomy))

\* what categorize_all_transactions returns when the calls `earlier` were
\* made before: the taxonomy is built anew by create_categories
list_of_call(list, earlier) ==
    ListV(categorize_all_transactions(list).categorized_transactions)

MaxCalls == 3

\* the arguments of the calls: descriptions 'a' and 'a b', an expense and an
\* income, two taxonomies that differ in key order, and two lists
CallDescriptions == {<<"a">>, <<"a", " ", "b">>}

CallAmounts == {[m |-> -5, d |-> 0], [m |-> 5, d |-> 0]}

CallTaxonomies ==
    {t \in [1..2 -> BaseCategories] : {t[1].name, t[2].name} = {"eda", "transport"}}

CallLists ==
    { <<[amount |-> [m |-> -5, d |-> 0],
         description |-> <<"ru_t", "ru_a", "ru_k", "ru_s", "ru_i">>]>>,
      <<[amount |-> [m |-> 5, d |-> 0],
         description |-> <<"ru_t", "ru_a", "ru_k", "ru_s", "ru_i">>]>> }

CallCategorize ==
    /\ Len(calls) < MaxCalls
    /\ \E desc \in CallDescriptions, amt \in CallAmounts, taxonomy \in CallTaxonomies :
          calls' = Append(calls, [fn |-> "categorize_transaction",
                                  args |-> <<desc, amt, taxonomy>>,
                                  result |-> label_of_call(desc, amt, taxonomy, calls)])
    /\ UNCHANGED <<all_transactions, categorized_transactions>>
    /\ UNCHANGED <<importVars, catVars, statsVars, budgetVars,
                   dateVars, mainVars>>

CallCategorizeAll ==
    /\ Len(calls) < MaxCalls
    /\ \E list \in CallLists :
          calls' = Append(calls, [fn |-> "categorize_all_transactions",
                                  args |-> <<list>>,
                                  result |-> list_of_call(list, calls)])
    /\ UNCHANGED <<all_transactions, categorized_transactions>>
    /\ UNCHANGED <<importVars, catVars, statsVars, budgetVars,
                   dateVars, mainVars>>

InitCalls ==
    /\ AllIdle
    /\ ImportOff
    /\ CatIdle
    /\ StatsIdle
    /\ BudgetIdle
    /\ DateIdle
    /\ MainIdle

NextCalls == CallCategorize \/ CallCategorizeAll

SpecCalls == InitCalls /\ [][NextCalls]_vars

----------------------------------------------------------------------------
(* budget_planner.py.  Amounts and limits are whole numbers; the values the
   code rounds to two decimals are counted in hundredths.  The Cyrillic
   literals of this file are stored mis-decoded: its default category and its
   savings key are other strings than 'drugoe' and 'nakopleniya' as the rest
   of the program spells them, written here with the suffix _mojibake. *)

\* the integer nearest to num / den, den > 0, ties to the even one:
\* round(x, 2) and format(x, '.0f')
round_half_even(num, den) ==
    LET q == num \div den
        r == num % den
    IN IF 2 * r < den THEN q
       ELSE IF 2 * r > den THEN q + 1
       ELSE IF q % 2 = 0 THEN q ELSE q + 1

IsExpense(transaction) == get(transaction, "amount", 0) < 0

\* a dict as its items in insertion order: the position of a key, or 0
position(items, key) ==
    IF \E k \in 1..Len(items) : items[k].category = key
    THEN CHOOSE k \in 1..Len(items) : items[k].category = key
    ELSE 0

\* expenses_by_category: for each category the list of its abs(amount)
RECURSIVE group_amounts(_, _)
group_amounts(expenses, by_category) ==
    IF expenses = <<>> THEN by_category
    ELSE LET name == get(Head(expenses), "category", "drugoe_mojibake")
             amount == Abs(Head(expenses).amount)
             opened == IF position(by_category, name) = 0
                       THEN Append(by_category, [category |-> name, amounts |-> <<>>])
                       ELSE by_category
             at == position(opened, name)
         IN group_amounts(Tail(expenses),
                          [opened EXCEPT ![at].amounts = Append(@, amount)])

RECURSIVE sum(_)
sum(amounts) == IF amounts = <<>> THEN 0 ELSE Head(amounts) + sum(Tail(amounts))

\* round(part / whole * 100, 2) in hundredths, by long division
percent_of(part, whole) ==
    ((part * 100) \div whole) * 100
    + round_half_even(((part * 100) % whole) * 100, whole)

\* analyze_historical_spending for amounts counted in 1/unit
analyze_spending(list, unit) ==
    LET expenses == SelectSeq(list, IsExpense)
        expenses_by_category == group_amounts(expenses, <<>>)
        total_expenses == sum([k \in 1..Len(expenses) |-> Abs(expenses[k].amount)])
        entry(item) ==
            [category |-> item.category,
             average_monthly |->
                 IF item.amounts # <<>>
                 THEN round_half_even(sum(item.amounts) * 100, Len(item.amounts) * unit)
                 ELSE 0,
             percentage_of_total |->
                 IF total_expenses > 0
                 THEN percent_of(sum(item.amounts), total_expenses)
                 ELSE 0]
    IN [category_analysis |->
            [k \in 1..Len(expenses_by_category) |-> entry(expenses_by_category[k])],
        total_monthly_expenses |-> round_half_even(total_expenses * 100, unit)]

\* whole-number amounts
analyze_historical_spending(list) == analyze_spending(list, 1)

\* actual_expenses: for each category the sum of its abs(amount)
RECURSIVE sum_actual(_, _)
sum_actual(list, actual_expenses) ==
    IF list = <<>> THEN actual_expenses
    ELSE IF ~IsExpense(Head(list)) THEN sum_actual(Tail(list), actual_expenses)
    ELSE LET name == get(Head(list), "category", "drugoe_mojibake")
             amount == Abs(Head(list).amount)
             opened == IF position(actual_expenses, name) = 0
                       THEN Append(actual_expenses, [category |-> name, amount |-> 0])
                       ELSE actual_expenses
             at == position(opened, name)
         IN sum_actual(Tail(list), [opened EXCEPT ![at].amount = @ + amount])

\* actual_expenses.get(category, 0)
actual_of(actual_expenses, name) ==
    IF position(actual_expenses, name) = 0 THEN 0
    ELSE actual_expenses[position(actual_expenses, name)].amount

\* excess_percent as the message prints it ('.0f'), for a limit other than 0
excess_percent(actual_amount, budget_limit) ==
    IF budget_limit > 0
    THEN round_half_even((actual_amount - budget_limit) * 100, budget_limit)
    ELSE round_half_even((budget_limit - actual_amount) * 100, -budget_limit)

\* the loop over budget_limits: the messages with the overage messages
\* added, or the ZeroDivisionError of the division by a limit of 0
RECURSIVE overage_loop(_, _, _)
overage_loop(limits, actual_expenses, recommendations) ==
    IF limits = <<>> THEN [t |-> "ok", recommendations |-> recommendations]
    ELSE LET name == Head(limits).category
             budget_limit == Head(limits).limit
             actual_amount == actual_of(actual_expenses, name)
         IN IF name = "nakopleniya_mojibake" \/ ~(actual_amount > budget_limit)
            THEN overage_loop(Tail(limits), actual_expenses, recommendations)
            ELSE IF budget_limit = 0
            THEN Raise("ZeroDivisionError")
            ELSE overage_loop(Tail(limits), actual_expenses,
                     Append(recommendations,
                            [kind |-> "reduce", category |-> name,
                             percent |-> excess_percent(actual_amount, budget_limit)]))

compare_budget_vs_actual(b, list) ==
    LET budget_limits == get(b, "budget_limits", <<>>)
        savings_goal == get(b, "savings_goal", 0)
        actual_expenses == sum_actual(list, <<>>)
        total_budget == sum([k \in 1..Len(budget_limits) |-> budget_limits[k].limit])
        total_actual == sum([k \in 1..Len(actual_expenses) |-> actual_expenses[k].amount])
        blanket == IF total_actual <= total_budget
                   THEN [kind |-> "within budget"]
                   ELSE [kind |-> "over budget"]
        looped == overage_loop(budget_limits, actual_expenses, <<blanket>>)
        goal == IF savings_goal > 0
                THEN <<[kind |-> "goal", amount |-> savings_goal]>>
                ELSE <<>>
    IN IF looped.t = "raise" THEN looped
       ELSE [t |-> "ok",
             recommendations |-> looped.recommendations \o goal,
             total_budget |-> total_budget * 100,
             total_actual |-> total_actual * 100,
             savings_goal |-> savings_goal]

AnalyzeHistoricalSpending ==
    /\ analysis = None
    /\ budget # None
    /\ analysis' = analyze_historical_spending(actual_transactions)
    /\ UNCHANGED <<budget, actual_transactions, comparison>>
    /\ UNCHANGED <<importVars, catVars, statsVars, allVars, dateVars, mainVars>>

CompareBudgetVsActual ==
    /\ comparison = None
    /\ budget # None
    /\ comparison' = compare_budget_vs_actual(budget, actual_transactions)
    /\ UNCHANGED <<budget, actual_transactions, analysis>>
    /\ UNCHANGED <<importVars, catVars, statsVars, allVars, dateVars, mainVars>>

MaxActual == 2

MaxLimits == 2

BudgetCategories == {"eda", "transport", "nakopleniya", "nakopleniya_mojibake"}

Limits == {0, 5, 20}

\* budget_limits: up to MaxLimits categories in any order, each with a limit
BudgetLimits ==
    {l \in UNION {[1..n -> [category : BudgetCategories, limit : Limits]] :
                     n \in 0..MaxLimits} :
        \A j, k \in 1..Len(l) : j # k => l[j].category # l[k].category}

Budgets == [budget_limits : BudgetLimits, savings_goal : {0, 10}]

\* expenses with and without a category, an income, and a record without
\* an amount
ActualPool ==
    { [amount |-> -10, category |-> "eda"],
      [amount |-> -3, category |-> "transport"],
      [amount |-> -10],
      [amount |-> 7, category |-> "eda"],
      [category |-> "eda"] }

ActualLists == UNION {[1..n -> ActualPool] : n \in 0..MaxActual}

InitBudget ==
    /\ budget \in Budgets
    /\ actual_transactions \in ActualLists
    /\ analysis = None
    /\ comparison = None
    /\ ImportOff
    /\ CatIdle
    /\ StatsIdle
    /\ AllIdle
    /\ DateIdle
    /\ MainIdle

NextBudget == AnalyzeHistoricalSpending \/ CompareBudgetVsActual

SpecBudget == InitBudget /\ [][NextBudget]_vars

----------------------------------------------------------------------------
(* Raw records and files *)

Absent == [t |-> "absent"]

Field(k, v) == IF v = Absent THEN <<>> ELSE <<[k |-> k, v |-> v]>>

\* a record with the usual English keys
Rec(date, amount, type) ==
    [shape |-> "dict",
     pairs |-> Field("date", date) \o Field("amount", amount) \o Field("type", type)]

S_iso == <<"2", "0", "2", "4", "-", "0", "1", "-", "1", "5">>

S_dotted == <<"1", "5", ".", "0", "1", ".", "2", "0", "2", "4">>

S_timed == <<"2", "0", "2", "4", "-", "0", "1", "-", "1", "5", " ", "1", "0", ":", "3", "0">>

S_garbage == <<"a", "b", "c">>

S_month13 == <<"1", "3", "/", "1", "3", "/", "2", "0", "2", "4">>

S_blank_first == <<" ", "1", "0", ":", "3", "0">>

S_year999 == <<"0", "9", "9", "9", "-", "0", "1", "-", "1", "5">>

S_1234_50 == <<"1", " ", "2", "3", "4", ",", "5", "0">>

MaxAmountLen == 3

MaxRows == 2

AmountAlphabet == {"5", "0", "-", ",", " ", "x"}

AmountStrings == UNION {[1..n -> AmountAlphabet] : n \in 1..MaxAmountLen}

SignWords ==
    {"debit", "DEBIT", "ru_rashod", "ru_spisanie", "-", "expense", "outcome",
     "credit", "CREDIT", "ru_dohod", "ru_popolnenie", "+", "income", "revenue",
     "transfer"}

\* the records of a one-record file: every amount string, every sign word,
\* every kind of date
RichRecords ==
    {Rec(StrV(S_iso), StrV(a), ty) :
        a \in AmountStrings, ty \in {Absent, StrV(<<"debit">>), StrV(<<"credit">>)}}
    \cup
    {Rec(StrV(S_iso), StrV(a), StrV(<<w>>)) :
        a \in {<<"5">>, <<"-", "5">>, <<"0">>, S_1234_50}, w \in SignWords}
    \cup
    {Rec(d, a, Absent) :
        d \in {Absent, None, StrV(<<>>), StrV(S_iso), StrV(S_dotted), StrV(S_timed),
               StrV(S_garbage), StrV(S_month13), StrV(S_blank_first), StrV(S_year999)},
        a \in {Absent, StrV(<<"5">>), IntV(5), IntV(-5), IntV(0)}}
    \cup
    {Rec(StrV(S_dotted), StrV(S_1234_50), ty) :
        ty \in {Absent, None, IntV(5), StrV(<<"ru_rashod">>), StrV(<<"debit", "credit">>)}}

\* the records of a file of several records
BatchRecords ==
    { Rec(StrV(S_iso), StrV(<<"5">>), Absent),
      Rec(StrV(S_dotted), StrV(<<"5">>), StrV(<<"debit">>)),
      Rec(StrV(S_dotted), StrV(S_1234_50), StrV(<<"ru_rashod">>)),
      Rec(StrV(S_iso), StrV(<<"0">>), StrV(<<"debit">>)),
      Rec(StrV(S_iso), StrV(<<"x">>), Absent),
      Rec(StrV(S_iso), StrV(<<"5", "-">>), Absent),
      Rec(Absent, StrV(<<"5">>), Absent),
      Rec(StrV(S_garbage), StrV(<<"-", "5">>), Absent),
      Rec(StrV(<<>>), StrV(<<>>), Absent),
      [shape |-> "dict",
       pairs |-> <<[k |-> "Date", v |-> StrV(S_iso)], [k |-> " amount ", v |-> StrV(<<"5">>)]>>] }

\* a row with more columns than the header (csv only)
SurplusRow ==
    [shape |-> "dict",
     pairs |-> <<[k |-> "date", v |-> StrV(S_iso)], [k |-> "amount", v |-> StrV(<<"5">>)],
                 [k |-> NoneKey, v |-> StrV(<<"x">>)]>>]

\* a JSON element that is a number (json only)
NumberItem == [shape |-> "number"]

RecordsOf(ext, pool) ==
    pool \cup (IF ext = "csv" THEN {SurplusRow} ELSE {NumberItem})

Lists(pool, n) == UNION {[1..k -> pool] : k \in 0..n}

ImportIdle ==
    /\ pc = "start"
    /\ i = 1
    /\ norm = [t |-> "idle"]
    /\ raw_data = <<>>
    /\ valid_transactions = <<>>
    /\ exc = "none"

\* files of up to MaxRows records, and the files that are missing, of
\* another kind, or unreadable
Init ==
    /\ strftime_pads \in BOOLEAN
    /\ \/ \E ext \in {"csv", "json"} :
            \E items \in Lists(RecordsOf(ext, BatchRecords), MaxRows) :
               file = [exists |-> TRUE, ext |-> ext, content |-> "ok",
                       data |-> [list |-> TRUE, items |-> items]]
       \/ \E e \in BOOLEAN, ext \in {"csv", "json", "txt"},
             c \in {"undecodable", "unparseable"} :
            file = [exists |-> e, ext |-> ext, content |-> c,
                    data |-> [list |-> TRUE, items |-> <<>>]]
    /\ ImportIdle
    /\ CatIdle
    /\ StatsIdle
    /\ BudgetIdle
    /\ AllIdle
    /\ DateIdle
    /\ MainIdle

\* files of exactly one record, drawn from the rich records; a JSON file
\* holds it in a list or as the top-level object
InitOne ==
    /\ strftime_pads \in BOOLEAN
    /\ \E ext \in {"csv", "json"} :
         \E r \in RecordsOf(ext, RichRecords) :
            \E l \in (IF ext = "json" THEN BOOLEAN ELSE {TRUE}) :
               file = [exists |-> TRUE, ext |-> ext, content |-> "ok",
                       data |-> [list |-> l, items |-> <<r>>]]
    /\ ImportIdle
    /\ CatIdle
    /\ StatsIdle
    /\ BudgetIdle
    /\ AllIdle
    /\ DateIdle
    /\ MainIdle

Next ==
    \/ ImportOpen
    \/ ReadCsvRow
    \/ ReadJsonItem
    \/ ImportFilter

Spec == Init /\ [][Next]_vars

SpecOne == InitOne /\ [][Next]_vars

----------------------------------------------------------------------------
(* Date strings for normalize_date *)

NormalizeDate ==
    /\ date_normalized = None
    /\ date_normalized' = StrV(normalize_date(date_given))
    /\ UNCHANGED <<date_given, date_renormalized>>
    /\ UNCHANGED <<importVars, catVars, statsVars, budgetVars,
                   allVars, mainVars>>

\* normalize_date applied to what it returned
NormalizeDateAgain ==
    /\ date_normalized # None
    /\ date_renormalized = None
    /\ date_renormalized' = StrV(normalize_date(date_normalized.s))
    /\ UNCHANGED <<date_given, date_normalized>>
    /\ UNCHANGED <<importVars, catVars, statsVars, budgetVars,
                   allVars, mainVars>>

\* day and month fields: one and two digits, with and without a leading
\* zero, both sides of 12, the month ends, and zero
DateFields ==
    { <<"1">>, <<"0", "2">>, <<"1", "2">>, <<"1", "3">>, <<"2", "9">>,
      <<"3", "0">>, <<"3", "1">>, <<"0">> }

\* year fields: a leap year, a common year, a year below 1000, the year 0
YearFields ==
    { <<"2", "0", "2", "4">>, <<"2", "0", "2", "3">>, <<"0", "9", "9", "9">>,
      <<"0", "0", "0", "0">> }

DateSeparators == {"-", ".", "/"}

\* nothing, or a time of day after a blank
DateSuffixes == { <<>>, <<" ", "1", "0", ":", "3", "0">> }

\* year first and year last with every separator, then the strings that are
\* no dates
DateStrings ==
    { y \o <<sep>> \o a \o <<sep>> \o b \o suffix :
        y \in YearFields, a \in DateFields, b \in DateFields,
        sep \in DateSeparators, suffix \in DateSuffixes }
    \cup
    { a \o <<sep>> \o b \o <<sep>> \o y \o suffix :
        y \in YearFields, a \in DateFields, b \in DateFields,
        sep \in DateSeparators, suffix \in DateSuffixes }
    \cup
    { <<>>, S_garbage, S_blank_first, <<"2", "0", "2", "4", "-", "0", "1">>,
      <<"1", "5", "/", "0", "1", ".", "2", "0", "2", "4">> }

InitDate ==
    /\ date_given \in DateStrings
    /\ date_normalized = None
    /\ date_renormalized = None
    /\ strftime_pads \in BOOLEAN
    /\ file = [exists |-> FALSE, ext |-> "txt", content |-> "ok",
               data |-> [list |-> TRUE, items |-> <<>>]]
    /\ pc = "idle"
    /\ i = 1
    /\ norm = [t |-> "idle"]
    /\ raw_data = <<>>
    /\ valid_transactions = <<>>
    /\ exc = "none"
    /\ CatIdle
    /\ StatsIdle
    /\ BudgetIdle
    /\ AllIdle
    /\ MainIdle

NextDate == NormalizeDate \/ NormalizeDateAgain

SpecDate == InitDate /\ [][NextDate]_vars

----------------------------------------------------------------------------
(* Transaction lists for calculate_basic_stats *)

MaxTx == 3

S_feb01 == <<"2", "0", "2", "4", "-", "0", "2", "-", "0", "1">>

S_month == <<"2", "0", "2", "4", "-", "0", "1">>

Tx(date, amount) == [date |-> date, amount |-> amount]

\* 0.1, 0.2, 0.3, 5.0, 2.0**53 and -100.0, -5.0, -50.0 as float.hex() prints
\* them, over two months, a bare month and a date the importer left as it was
F_0_1 == fromhex(1, <<"1", "9", "9", "9", "9", "9", "9", "9", "9", "9", "9", "9", "9", "a">>, -4)

F_0_2 == fromhex(1, <<"1", "9", "9", "9", "9", "9", "9", "9", "9", "9", "9", "9", "9", "a">>, -3)

F_0_3 == fromhex(1, <<"1", "3", "3", "3", "3", "3", "3", "3", "3", "3", "3", "3", "3", "3">>, -2)

F_5 == fromhex(1, <<"1", "4", "0", "0", "0", "0", "0", "0", "0", "0", "0", "0", "0", "0">>, 2)

F_m100 == fromhex(-1, <<"1", "9", "0", "0", "0", "0", "0", "0", "0", "0", "0", "0", "0", "0">>, 6)

F_m5 == fromhex(-1, <<"1", "4", "0", "0", "0", "0", "0", "0", "0", "0", "0", "0", "0", "0">>, 2)

F_2p53 == fromhex(1, <<"1", "0", "0", "0", "0", "0", "0", "0", "0", "0", "0", "0", "0", "0">>, 53)

F_m50 == fromhex(-1, <<"1", "9", "0", "0", "0", "0", "0", "0", "0", "0", "0", "0", "0", "0">>, 5)

TxPool ==
    { Tx(S_iso, F_0_1), Tx(S_iso, F_0_2), Tx(S_feb01, F_0_3), Tx(S_garbage, F_5), Tx(S_feb01, F_2p53),
      Tx(S_iso, F_m100), Tx(S_feb01, F_m5), Tx(S_month, F_m50) }

TxLists == UNION {[1..n -> TxPool] : n \in 0..MaxTx}

InitStats ==
    /\ transactions \in TxLists
    /\ stats = None
    /\ stats_pc = "start"
    /\ category_stats = None
    /\ ImportOff
    /\ CatIdle
    /\ BudgetIdle
    /\ AllIdle
    /\ DateIdle
    /\ MainIdle

NextStats == CalculateBasicStats

SpecStats == InitStats /\ [][NextStats]_vars

MaxLargest == 6

\* expenses of -100.0, -5.0 and -50.0 and an income of 5.0, in lists long
\* enough to hold more than five expenses
LargestPool ==
    { Tx(S_iso, F_m100), Tx(S_feb01, F_m5), Tx(S_month, F_m50), Tx(S_garbage, F_5) }

LargestLists == UNION {[1..n -> LargestPool] : n \in 0..MaxLargest}

InitLargest ==
    /\ transactions \in LargestLists
    /\ stats = None
    /\ stats_pc = "start"
    /\ category_stats = None
    /\ ImportOff
    /\ CatIdle
    /\ BudgetIdle
    /\ AllIdle
    /\ DateIdle
    /\ MainIdle

SpecLargest == InitLargest /\ [][NextStats]_vars

TxC(date, amount, name) == [date |-> date, amount |-> amount, category |-> name]

F_m0_1 == fneg(F_0_1)

F_m0_2 == fneg(F_0_2)

F_m0_3 == fneg(F_0_3)

\* expenses of -0.1, -0.2, -0.3, -5.0 and -50.0 in two categories or with no
\* category, and an income of 5.0
RollupPool ==
    { TxC(S_iso, F_m0_1, "eda"), TxC(S_iso, F_m0_2, "transport"),
      TxC(S_feb01, F_m0_3, "transport"), Tx(S_feb01, F_m0_2),
      TxC(S_iso, F_m5, "eda"), Tx(S_month, F_m50),
      TxC(S_iso, F_5, "zarplata") }

RollupLists == UNION {[1..n -> RollupPool] : n \in 0..MaxTx}

InitRollup ==
    /\ transactions \in RollupLists
    /\ stats = None
    /\ stats_pc = "start"
    /\ category_stats = None
    /\ ImportOff
    /\ CatIdle
    /\ BudgetIdle
    /\ AllIdle
    /\ DateIdle
    /\ MainIdle

NextRollup == CalculateBasicStats \/ CalculateByCategory

SpecRollup == InitRollup /\ [][NextRollup]_vars

\* the lists given to categorize_all_transactions
MaxAll == 2

\* transactions with a keyword of an expense category, of an income
\* category, in upper case, without description, without amount, and one
\* that carries a category already
AllPool ==
    { [date |-> S_iso, amount |-> [m |-> -5, d |-> 0],
        description |-> <<"ru_t", "ru_a", "ru_k", "ru_s", "ru_i">>],
      [date |-> S_iso, amount |-> [m |-> 5, d |-> 0],
        description |-> <<"RU_A", "ru_v", "ru_a", "ru_n", "ru_s">>],
      [date |-> S_iso, amount |-> [m |-> -5, d |-> 0]],
      [date |-> S_iso, amount |-> [m |-> -5, d |-> 0],
        description |-> <<"ru_k", "ru_a", "ru_f", "ru_e">>,
        category |-> "staroe"],
      [amount |-> [m |-> -5, d |-> 0],
        description |-> <<"ru_b", "ru_o", "ru_n", "ru_u", "ru_s">>],
      [amount |-> [m |-> 5, d |-> 0],
        description |-> <<"x", "y", "z">>],
      [ description |-> <<"RU_T", "ru_a", "ru_k", "ru_s", "ru_i", " ",
                        "RU_YA", "ru_n", "ru_d", "ru_e", "ru_k", "ru_s">>] }

AllLists == UNION {[1..n -> AllPool] : n \in 0..MaxAll}

InitAll ==
    /\ all_transactions \in AllLists
    /\ categorized_transactions = None
    /\ calls = <<>>
    /\ ImportOff
    /\ CatIdle
    /\ StatsIdle
    /\ BudgetIdle
    /\ DateIdle
    /\ MainIdle

\* the input of calculate_basic_stats and calculate_by_category
InitStageStats ==
    /\ transactions \in UNION {[1..n -> RollupPool] : n \in 0..MaxAll}
    /\ stats = None
    /\ stats_pc = "start"
    /\ category_stats = None
    /\ ImportOff
    /\ CatIdle
    /\ BudgetIdle
    /\ AllIdle
    /\ DateIdle
    /\ MainIdle

\* the input of analyze_historical_spending
InitStageBudget ==
    /\ budget = [budget_limits |-> <<>>, savings_goal |-> 0]
    /\ actual_transactions \in UNION {[1..n -> ActualPool] : n \in 0..MaxAll}
    /\ analysis = None
    /\ comparison = None
    /\ ImportOff
    /\ CatIdle
    /\ StatsIdle
    /\ AllIdle
    /\ DateIdle
    /\ MainIdle

\* one stage of the pipeline is given its list
InitStages == InitAll \/ InitStageStats \/ InitStageBudget

NextStages ==
    \/ CategorizeAll
    \/ CalculateBasicStats
    \/ CalculateByCategory
    \/ AnalyzeHistoricalSpending

SpecStages == InitStages /\ [][NextStages]_vars

----------------------------------------------------------------------------
(* budget_planner.py: create_budget_template, amounts in hundredths *)

\* 0.9 as float.hex() prints it
F_0_9 == fromhex(1, <<"1", "c", "c", "c", "c", "c", "c", "c", "c", "c", "c", "c", "c", "d">>, -1)

\* round(value * factor, 2) of a value held in hundredths
rounded_share(value, factor) == round2(fmul(float_of_ratio(value, 100), factor))

\* budget_limits[key] = value on the items in insertion order
set_limit(budget_limits, key, value) ==
    IF \E k \in 1..Len(budget_limits) : budget_limits[k].category = key
    THEN [k \in 1..Len(budget_limits) |->
             IF budget_limits[k].category = key
             THEN [category |-> key, limit |-> value]
             ELSE budget_limits[k]]
    ELSE Append(budget_limits, [category |-> key, limit |-> value])

RECURSIVE limit_loop(_, _)
limit_loop(category_analysis, budget_limits) ==
    IF category_analysis = <<>> THEN budget_limits
    ELSE LET data == Head(category_analysis)
             historical_avg == data.average_monthly
         IN limit_loop(Tail(category_analysis),
                       set_limit(budget_limits, data.category,
                                 rounded_share(historical_avg, F_0_9)))

create_budget_template(a) ==
    LET category_analysis == get(a, "category_analysis", <<>>)
        total_expenses == get(a, "total_monthly_expenses", 0)
        savings_amount == rounded_share(total_expenses, F_0_1)
    IN [budget_limits |->
            set_limit(limit_loop(category_analysis, <<>>),
                      "nakopleniya_mojibake", savings_amount),
        savings_goal |-> savings_amount]

----------------------------------------------------------------------------
(* data_importer.py: generate_sample_data and the importer as one call *)

generate_sample_data ==
    <<
      Transaction(<<"2", "0", "2", "4", "-", "0", "1", "-", "1", "5">>,
                  Normal(-15005, 1),
                  <<"RU_P", "ru_r", "ru_o", "ru_d", "ru_u", "ru_k", "ru_t", "ru_y", " ", "ru_v", " ", "RU_P", "ru_ya", "ru_t", "ru_e", "ru_r", "ru_o", "ru_ch", "ru_k", "ru_e">>),
      Transaction(<<"2", "0", "2", "4", "-", "0", "1", "-", "1", "0">>,
                  Normal(500000, 1),
                  <<"RU_Z", "ru_a", "ru_r", "ru_p", "ru_l", "ru_a", "ru_t", "ru_a", " ", "ru_z", "ru_a", " ", "ru_ya", "ru_n", "ru_v", "ru_a", "ru_r", "ru_soft">>),
      Transaction(<<"2", "0", "2", "4", "-", "0", "1", "-", "1", "2">>,
                  Normal(-3500, 1),
                  <<"RU_T", "ru_a", "ru_k", "ru_s", "ru_i", " ", "RU_YA", "ru_n", "ru_d", "ru_e", "ru_k", "ru_s">>),
      Transaction(<<"2", "0", "2", "4", "-", "0", "1", "-", "0", "8">>,
                  Normal(-12000, 1),
                  <<"RU_R", "ru_e", "ru_s", "ru_t", "ru_o", "ru_r", "ru_a", "ru_n", " ", "RU_S", "ru_u", "ru_sh", "ru_i", " ", "W", "o", "k">>),
      Transaction(<<"2", "0", "2", "4", "-", "0", "1", "-", "2", "0">>,
                  Normal(50000, 1),
                  <<"RU_P", "ru_r", "ru_e", "ru_m", "ru_i", "ru_ya", " ", "ru_z", "ru_a", " ", "ru_p", "ru_r", "ru_o", "ru_e", "ru_k", "ru_t">>),
      Transaction(<<"2", "0", "2", "4", "-", "0", "1", "-", "0", "5">>,
                  Normal(-4500, 1),
                  <<"RU_A", "ru_p", "ru_t", "ru_e", "ru_k", "ru_a", " ", "numero", "1">>),
      Transaction(<<"2", "0", "2", "4", "-", "0", "1", "-", "1", "8">>,
                  Normal(-22000, 1),
                  <<"RU_M", "ru_a", "ru_g", "ru_n", "ru_i", "ru_t", " ", "ru_k", "ru_o", "ru_s", "ru_m", "ru_e", "ru_t", "ru_i", "ru_k">>),
      Transaction(<<"2", "0", "2", "4", "-", "0", "1", "-", "2", "5">>,
                  Normal(-7500, 1),
                  <<"RU_K", "ru_i", "ru_n", "ru_o", "ru_t", "ru_e", "ru_a", "ru_t", "ru_r", " ", "RU_F", "ru_o", "ru_r", "ru_m", "ru_u", "ru_l", "ru_a", " ", "RU_K", "ru_i", "ru_n", "ru_o">>)
    >>

\* the records of a file f, as data_list gives them for the file at hand
records_of(f) == IF f.data.list THEN f.data.items ELSE <<f.data.items[1]>>

\* what the reader makes of one record
read_record(f, raw) ==
    IF f.ext = "csv"
    THEN IF any_value(raw) THEN normalize_csv_row(raw) ELSE None
    ELSE normalize_json_item(raw)

\* import_financial_data(filename): the list returned, or the exception
\* that leaves the call
import_financial_data(f) ==
    LET read == [k \in 1..Len(records_of(f)) |-> read_record(f, records_of(f)[k])]
        IsRaise(r) == r.t = "raise"
        IsTransaction(r) == r.t = "tx"
    IN IF ~f.exists \/ f.ext \notin {"csv", "json"} THEN [t |-> "list", v |-> <<>>]
       ELSE IF f.ext = "csv" /\ f.content = "undecodable"
       THEN Raise("UnicodeDecodeError")
       ELSE IF f.ext = "json" /\ f.content # "ok" THEN [t |-> "list", v |-> <<>>]
       ELSE IF SelectSeq(read, IsRaise) # <<>> THEN Head(SelectSeq(read, IsRaise))
       ELSE [t |-> "list",
             v |-> SelectSeq(SelectSeq(read, IsTransaction), IsValidTransaction)]

----------------------------------------------------------------------------
(* main.py: the globals, load_data, process_data and the menu loop *)

\* the float of an imported amount, for analyzer.py
as_float(transaction) ==
    [transaction EXCEPT
        !.amount = float_of_ratio(transaction.amount.m, 10 ^ transaction.amount.d)]

\* an imported amount of at most two decimals in hundredths, for
\* budget_planner.py
in_hundredths(transaction) ==
    [transaction EXCEPT
        !.amount = transaction.amount.m * 10 ^ (2 - transaction.amount.d)]

\* process_data past its guard: the five globals it assigns
process_data(list) ==
    LET categorized == categorize_all_transactions(list).categorized_transactions
        floats == [k \in 1..Len(categorized) |-> as_float(categorized[k])]
        hundredths == [k \in 1..Len(categorized) |-> in_hundredths(categorized[k])]
        budget_analysis == analyze_spending(hundredths, 100)
    IN [categorized_transactions |-> categorized,
        stats |-> calculate_basic_stats(floats),
        category_stats |-> calculate_by_category(floats),
        budget_analysis |-> budget_analysis,
        budget_template |-> create_budget_template(budget_analysis)]

\* process_data() with `list` as the global transactions
ProcessData(list) ==
    IF list = <<>>
    THEN UNCHANGED <<main_categorized_transactions, main_stats, main_category_stats,
                     main_budget_analysis, main_budget_template>>
    ELSE \E processed \in {process_data(list)} :
            /\ main_categorized_transactions' = processed.categorized_transactions
            /\ main_stats' = processed.stats
            /\ main_category_stats' = processed.category_stats
            /\ main_budget_analysis' = processed.budget_analysis
            /\ main_budget_template' = processed.budget_template

\* load_data(filename): the global transactions afterwards, what it
\* printed, or the exception of the importer
load_data(f) ==
    IF f.named /\ f.exists
    THEN LET imported == import_financial_data(f)
         IN IF imported.t = "raise" THEN imported
            ELSE [t |-> "ok", transactions |-> imported.v,
                  printed |-> IF imported.v # <<>> THEN "imported" ELSE "import error"]
    ELSE [t |-> "ok", transactions |-> main_transactions, printed |-> "file not found"]

\* menu 1: load_data(filename), then process_data() if transactions
LoadFromFile(f) ==
    /\ main_pc = "menu"
    /\ \E loaded \in {load_data(f)} :
          IF loaded.t = "raise"
          THEN /\ main_pc' = "raised"
               /\ main_output' = loaded
               /\ UNCHANGED <<main_transactions, main_categorized_transactions,
                              main_stats, main_category_stats,
                              main_budget_analysis, main_budget_template>>
          ELSE /\ main_transactions' = loaded.transactions
               /\ ProcessData(loaded.transactions)
               /\ main_output' = [t |-> "printed", text |-> loaded.printed]
               /\ UNCHANGED main_pc
    /\ UNCHANGED <<importVars, catVars, statsVars, budgetVars, allVars, dateVars>>

\* menu 2: load_data(use_sample=True), then process_data()
LoadSample ==
    /\ main_pc = "menu"
    /\ main_transactions' = generate_sample_data
    /\ ProcessData(generate_sample_data)
    /\ main_output' = [t |-> "printed", text |-> "generated"]
    /\ UNCHANGED main_pc
    /\ UNCHANGED <<importVars, catVars, statsVars, budgetVars, allVars, dateVars>>

\* menu 3: generate_report() reads ru.TEXTS_RU, which local.py lacks
GenerateReport ==
    /\ main_pc = "menu"
    /\ IF main_categorized_transactions # <<>>
       THEN /\ main_pc' = "raised"
            /\ main_output' = Raise("AttributeError")
       ELSE /\ main_output' = [t |-> "printed", text |-> "load data first"]
            /\ UNCHANGED main_pc
    /\ UNCHANGED <<main_transactions, main_categorized_transactions, main_stats,
                   main_category_stats, main_budget_analysis, main_budget_template>>
    /\ UNCHANGED <<importVars, catVars, statsVars, budgetVars, allVars, dateVars>>

\* menu 4: save_results() writes the file from stats and category_stats,
\* closes it, and then reads ru.TEXTS_RU
SaveResults ==
    /\ main_pc = "menu"
    /\ IF main_categorized_transactions # <<>>
       THEN /\ main_pc' = "raised"
            /\ main_output' =
                   [t |-> "file",
                    income |-> get(main_stats, "total_income", Zero),
                    expenses |-> get(main_stats, "total_expenses", Zero),
                    balance |-> get(main_stats, "balance", Zero),
                    expenses_by_category |->
                        get(main_category_stats, "expenses_by_category", <<>>)]
       ELSE /\ main_output' = [t |-> "printed", text |-> "no data to save"]
            /\ UNCHANGED main_pc
    /\ UNCHANGED <<main_transactions, main_categorized_transactions, main_stats,
                   main_category_stats, main_budget_analysis, main_budget_template>>
    /\ UNCHANGED <<importVars, catVars, statsVars, budgetVars, allVars, dateVars>>

\* menu 5: print_categorization_report and generate_analytics_report
ShowDetails ==
    /\ main_pc = "menu"
    /\ main_output' =
           IF main_categorized_transactions # <<>>
           THEN [t |-> "details",
                 transactions |-> main_categorized_transactions,
                 transaction_count |-> get(main_stats, "transaction_count", 0),
                 expenses_by_category |->
                     get(main_category_stats, "expenses_by_category", <<>>)]
           ELSE [t |-> "printed", text |-> "load data first"]
    /\ UNCHANGED <<main_transactions, main_categorized_transactions, main_stats,
                   main_category_stats, main_budget_analysis, main_budget_template,
                   main_pc>>
    /\ UNCHANGED <<importVars, catVars, statsVars, budgetVars, allVars, dateVars>>

\* menu 6: print(ru.TEXTS_RU["goodbye"]) before the break
Exit ==
    /\ main_pc = "menu"
    /\ main_pc' = "raised"
    /\ main_output' = Raise("AttributeError")
    /\ UNCHANGED <<main_transactions, main_categorized_transactions, main_stats,
                   main_category_stats, main_budget_analysis, main_budget_template>>
    /\ UNCHANGED <<importVars, catVars, statsVars, budgetVars, allVars, dateVars>>

MaxMainRows == 2

\* a record with a description
Described(date, amount, description) ==
    [shape |-> "dict",
     pairs |-> Field("date", date) \o Field("amount", amount)
               \o Field("description", description)]

\* an income, two expenses of different months and categories, and a
\* record whose amount is not a number
MainRecords ==
    { Rec(StrV(S_iso), StrV(<<"5">>), Absent),
      Rec(StrV(S_dotted), StrV(<<"5">>), StrV(<<"debit">>)),
      Described(StrV(S_feb01), StrV(<<"-", "5", "0">>),
                StrV(<<"RU_T", "ru_a", "ru_k", "ru_s", "ru_i">>)),
      Rec(StrV(S_iso), StrV(<<"x">>), Absent) }

FileOf(named, exists, ext, content, items) ==
    [named |-> named, exists |-> exists, ext |-> ext, content |-> content,
     data |-> [list |-> TRUE, items |-> items]]

\* the file names typed at the prompt: CSV files of up to MaxMainRows
\* records, JSON files of one record, a file with a surplus column, files
\* that cannot be decoded or parsed, a file of another kind, a name of no
\* file, and the empty name
MainFiles ==
    {FileOf(TRUE, TRUE, "csv", "ok", items) : items \in Lists(MainRecords, MaxMainRows)}
    \cup {FileOf(TRUE, TRUE, "json", "ok", <<r>>) : r \in MainRecords}
    \cup {FileOf(TRUE, TRUE, "csv", "ok", <<SurplusRow>>),
          FileOf(TRUE, TRUE, "csv", "undecodable", <<>>),
          FileOf(TRUE, TRUE, "json", "unparseable", <<>>),
          FileOf(TRUE, TRUE, "txt", "ok", <<>>),
          FileOf(TRUE, FALSE, "csv", "ok", <<>>),
          FileOf(FALSE, FALSE, "txt", "ok", <<>>)}

\* main() at its first prompt
InitMain ==
    /\ main_transactions = <<>>
    /\ main_categorized_transactions = <<>>
    /\ main_stats = [t |-> "dict"]
    /\ main_category_stats = [t |-> "dict"]
    /\ main_budget_analysis = [t |-> "dict"]
    /\ main_budget_template = [t |-> "dict"]
    /\ main_pc = "menu"
    /\ main_output = None
    /\ ImportOff
    /\ CatIdle
    /\ StatsIdle
    /\ BudgetIdle
    /\ AllIdle
    /\ DateIdle

NextMain ==
    \/ \E f \in MainFiles : LoadFromFile(f)
    \/ LoadSample
    \/ GenerateReport
    \/ SaveResults
    \/ ShowDetails
    \/ Exit

SpecMain == InitMain /\ [][NextMain]_vars

----------------------------------------------------------------------------
(* Claims about the importer *)

\* the value a raw record holds under a key, Absent when it has none
ValueAt(raw, key) ==
    IF raw.shape = "dict" /\ key \in DOMAIN DictOf(raw.pairs)
    THEN DictOf(raw.pairs)[key] ELSE Absent

\* the one record of a one-record file
TheRecord == data_list[1]

\* the record is a plain mapping: an object, and no surplus csv column
PlainDict(raw) ==
    raw.shape = "dict" /\ \A j \in 1..Len(raw.pairs) : raw.pairs[j].k # NoneKey

\* C1: every transaction import_financial_data returns has a non-zero
\* amount, and its type is income exactly when the amount is >= 0 and
\* expense exactly when it is < 0, whatever the source's type field said.
C1_TypeMatchesSign ==
    \A k \in 1..Len(valid_transactions) :
        LET tx == valid_transactions[k]
        IN /\ tx.amount.m # 0
           /\ (tx.type = "income") <=> (tx.amount.m >= 0)
           /\ (tx.type = "expense") <=> (tx.amount.m < 0)

\* a csv record whose own type field says income is returned as an expense
C1_Witness ==
    /\ pc = "done"
    /\ Len(valid_transactions) = 1
    /\ ValueAt(TheRecord, "type") = StrV(<<"income">>)
    /\ valid_transactions[1].type = "expense"

\* C4: the record normalizer ends in a canonical transaction or in None and
\* never raises, for every raw record of either source kind.
C4_NormalizerNeverRaises ==
    (norm.t # "idle" /\ TheRecord.shape = "dict") => norm.t \in {"tx", "none"}

\* the normalizer of the file's source kind
Normalize(ext, raw) ==
    IF ext = "csv"
    THEN (IF any_value(raw) THEN normalize_csv_row(raw) ELSE None)
    ELSE normalize_json_item(raw)

WellFormed(result) == result.t = "tx" /\ IsValidTransaction(result)

\* the transactions of the well-formed records of the file, in file order
WellFormedOf(ext, rows) ==
    SelectSeq([k \in 1..Len(rows) |-> IF PlainDict(rows[k]) THEN Normalize(ext, rows[k])
                                      ELSE None],
              WellFormed)

\* C5: in a file of plain records a malformed record is dropped, and every
\* well-formed record before and after it is returned: the import always
\* completes with exactly the well-formed records.
C5_BadRecordNeverAborts ==
    ( /\ pc \in {"done", "raised"}
      /\ file.exists /\ file.content = "ok" /\ file.ext \in {"csv", "json"}
      /\ \A k \in 1..Len(data_list) : PlainDict(data_list[k]) )
    => ( /\ pc = "done"
         /\ valid_transactions = WellFormedOf(file.ext, data_list) )

\* C13: the import returns an empty list and raises nothing when the path
\* does not exist, when the extension is neither csv nor json, and when the
\* file's content cannot be decoded or parsed as a whole, for both kinds.
C13_UnreadableYieldsEmpty ==
    ( /\ pc \in {"done", "raised"}
      /\ \/ ~file.exists
         \/ file.ext \notin {"csv", "json"}
         \/ file.content # "ok" )
    => (pc = "done" /\ valid_transactions = <<>>)

\* C6: for both source kinds the record {date 15.01.2024, amount 1 234,50,
\* type ru_rashod} normalizes to {date 2024-01-15, amount -1234.50, expense}.
C6_SpacedCommaAmount ==
    ( /\ norm.t # "idle"
      /\ TheRecord = Rec(StrV(S_dotted), StrV(S_1234_50), StrV(<<"ru_rashod">>)) )
    => ( /\ norm.t = "tx"
         /\ norm.date = S_iso
         /\ norm.amount = [m |-> -12345, d |-> 1]
         /\ norm.type = "expense" )

\* digits with at most one '.', and at most one '-' which then comes first
WellShaped(cleaned) ==
    /\ count(cleaned, ".") <= 1
    /\ count(cleaned, "-") <= 1
    /\ contains(cleaned, "-") => cleaned[1] = "-"
    /\ isdigit(replace(replace(cleaned, ".", <<>>), "-", <<>>))

\* the amount string of the record with ',' turned into '.' and blanks removed
CleanedAmount == replace(replace(ValueAt(TheRecord, "amount").s, ",", <<".">>), " ", <<>>)

\* C16: an amount string passes _is_float only if, cleaned, it is digits with
\* at most one decimal separator and at most one minus sign in leading
\* position; for every other amount string the normalizer rejects the record.
C16_IllShapedAmountRejected ==
    ( /\ norm.t # "idle"
      /\ ValueAt(TheRecord, "amount").t = "str"
      /\ ~WellShaped(CleanedAmount) )
    => ( /\ ~_is_float(ValueAt(TheRecord, "amount").s)
         /\ norm.t = "none" )

\* YYYY-MM-DD
IsIsoDate(s) ==
    /\ Len(s) = 10
    /\ s[5] = "-" /\ s[8] = "-"
    /\ \A k \in {1, 2, 3, 4, 6, 7, 9, 10} : s[k] \in Digits

\* C8: every transaction import_financial_data returns has a date of the
\* form YYYY-MM-DD; a record whose date matches none of the five patterns
\* is dropped.
C8_DatesAreIso ==
    \A k \in 1..Len(valid_transactions) : IsIsoDate(valid_transactions[k].date)

\* the direction words of the claim: debit, the expense words, the minus
\* sign; credit, the income words, the plus sign
DebitWords ==
    {"debit", "expense", "outcome", "ru_rashod", "ru_spisanie", "-"}

CreditWords ==
    {"credit", "income", "revenue", "ru_dohod", "ru_popolnenie", "+"}

\* the sign the claim gives a parsed amount under a type field value
ClaimedSign(amount, type) ==
    LET words == IF type = Absent \/ ~Truthy(type) THEN {}
                 ELSE {lower(str(type))[k] : k \in 1..Len(str(type))}
    IN IF words \cap DebitWords # {} THEN NegAbs(amount)
       ELSE IF words \cap CreditWords # {} THEN PosAbs(amount)
       ELSE amount

\* C9: both source kinds resolve the sign by one rule: a debit word in the
\* type field gives -|amount|, a credit word +|amount|, anything else or no
\* field leaves the parsed sign.
C9_OneSignRule ==
    ( /\ norm.t = "tx"
      /\ ValueAt(TheRecord, "amount") # Absent )
    => norm.amount =
          ClaimedSign(
              float(replace(replace(str(ValueAt(TheRecord, "amount")), ",", <<".">>),
                            " ", <<>>)).val,
              ValueAt(TheRecord, "type"))

----------------------------------------------------------------------------
(* Claims about categorize_transaction *)

KeyNames == {categories[k].name : k \in 1..Len(categories)}

\* C2: categorize_transaction returns exactly one label for every
\* description, amount and taxonomy; for amount >= 0 it is one of the five
\* income categories or 'prochie dohody', for amount < 0 it is a taxonomy key
\* outside the income list or 'drugoe'.
C2_LabelInRange ==
    cat_pc = "done" =>
        IF tx_amount.m >= 0
        THEN category \in IncomeNames \cup {"prochie dohody"}
        ELSE category \in (KeyNames \ IncomeNames) \cup {"drugoe"}

\* a keyword of an income category of the taxonomy is in the description
IncomeKeywordHits ==
    \E k \in 1..Len(categories) :
        /\ categories[k].name \in IncomeNames
        /\ income_match(categories[k].keywords, lower(tx_description),
                        strip_punctuation(lower(tx_description)))

\* an expense whose description carries an income keyword, the income
\* category being declared first, has been given an expense label
C2_Witness ==
    /\ cat_pc = "done"
    /\ tx_amount.m < 0
    /\ Len(categories) >= 2
    /\ categories[1].name \in IncomeNames
    /\ IncomeKeywordHits
    /\ category \in KeyNames \ IncomeNames

\* the categories the branch taken searches, and those of them that hit
Eligible(k) ==
    IF tx_amount.m >= 0 THEN categories[k].name \in IncomeNames
    ELSE categories[k].name \notin IncomeNames

Hits(k) ==
    LET desc_lower == lower(tx_description)
        desc_clean == strip_punctuation(desc_lower)
    IN IF tx_amount.m >= 0
       THEN income_match(categories[k].keywords, desc_lower, desc_clean)
       ELSE loose_match(categories[k].keywords, desc_lower, desc_clean)

HitPositions == {k \in 1..Len(categories) : Eligible(k) /\ Hits(k)}

HitNames == {categories[k].name : k \in HitPositions}

EarliestByKeys ==
    categories[CHOOSE k \in HitPositions : \A j \in HitPositions : k <= j].name

IncomeRank(name) == CHOOSE k \in 1..Len(income_categories) : income_categories[k] = name

\* C10 as stated: when keywords of eligible categories hit, the category
\* returned is the one declared earliest in the taxonomy's key order, for
\* income as well as for expenses.
C10_EarliestInKeyOrder ==
    (cat_pc = "done" /\ HitPositions # {}) => category = EarliestByKeys

\* C10 as the code has it: when keywords of eligible categories hit, an
\* expense gets the hit category declared earliest in the taxonomy's key
\* order, and an income gets the hit category that comes first in the fixed
\* income list, whatever the taxonomy's key order.
C10_EarliestInSearchOrder ==
    (cat_pc = "done" /\ HitPositions # {}) =>
        IF tx_amount.m < 0
        THEN category = EarliestByKeys
        ELSE /\ category \in HitNames
             /\ \A n \in HitNames : IncomeRank(category) <= IncomeRank(n)

\* two income categories hit and the one returned is not the one the
\* taxonomy declares first
C10_Witness ==
    /\ cat_pc = "done"
    /\ tx_amount.m >= 0
    /\ Cardinality(HitPositions) >= 2
    /\ category # EarliestByKeys

----------------------------------------------------------------------------
(* Claims about calculate_basic_stats *)

\* every order of a list
Reorderings(list) ==
    {[k \in 1..Len(list) |-> list[p[k]]] : p \in Permutations(1..Len(list))}

SameTotals(a, b) ==
    /\ a.balance = b.balance
    /\ a.total_income = b.total_income
    /\ a.total_expenses = b.total_expenses

OrderInvariant ==
    \A r \in Reorderings(transactions) : SameTotals(calculate_basic_stats(r), stats)

BalanceRelation == stats.balance = fsub(stats.total_income, stats.total_expenses)

\* the exact sum of the magnitudes of whole amounts, as a bit string
RECURSIVE magnitude_sum(_)
magnitude_sum(list) ==
    IF list = <<>> THEN <<>>
    ELSE LET a == Zeros(Head(list).amount.e) \o Head(list).amount.m
             b == magnitude_sum(Tail(list))
             n == IF Len(a) > Len(b) THEN Len(a) ELSE Len(b)
         IN add_bits(pad(a, n), pad(b, n), 0)

\* every amount is a whole number and their magnitudes sum to less than
\* 2^Precision, so that no addition rounds
SumsAreExact ==
    /\ \A k \in 1..Len(transactions) : transactions[k].amount.e >= 0
    /\ Len(magnitude_sum(transactions)) <= Precision

\* C3 as stated: balance = total_income - total_expenses, and balance,
\* total_income and total_expenses are the same for every permutation of the
\* list.
C3_TotalsOrderInvariant ==
    stats_pc = "done" => (BalanceRelation /\ OrderInvariant)

\* C3 for float sums: balance = total_income - total_expenses for every
\* list, and balance, total_income and total_expenses are the same for every
\* permutation of a list of whole amounts whose magnitudes sum to less than
\* 2^53.
C3_BalanceAndExactSums ==
    stats_pc = "done" => (BalanceRelation /\ (SumsAreExact => OrderInvariant))

\* a list of three different whole amounts, income and expenses, has been
\* summed
C3_Witness ==
    /\ stats_pc = "done"
    /\ SumsAreExact
    /\ Len(transactions) = 3
    /\ \A j, k \in 1..3 : j # k => transactions[j] # transactions[k]
    /\ \E k \in 1..3 : fge0(transactions[k].amount)
    /\ \E k \in 1..3 : ~fge0(transactions[k].amount)
    /\ stats.total_income # Zero
    /\ stats.total_expenses # Zero

\* sum(d.values()) of a dict of sums
RECURSIVE values_sum(_, _)
values_sum(items, total) ==
    IF items = <<>> THEN total
    ELSE values_sum(Tail(items), fadd(total, Head(items).amount))

RollupDone == stats_pc = "done" /\ category_stats # None

RollupTotal == fabs(values_sum(category_stats.expenses_by_category, Zero))

\* C11 as stated: for every list the absolute value of the sum of the values
\* of expenses_by_category, the fallback bucket included, equals
\* total_expenses of calculate_basic_stats.
C11_RollupEqualsTotal ==
    RollupDone => RollupTotal = stats.total_expenses

\* C11 for float sums: the absolute value of the sum of the values of
\* expenses_by_category, the fallback bucket included, equals total_expenses
\* for every list of whole amounts whose magnitudes sum to less than 2^53.
C11_RollupEqualsExactTotal ==
    (RollupDone /\ SumsAreExact) => RollupTotal = stats.total_expenses

\* whole expenses in a named category and in the fallback bucket, one of
\* the buckets holding two of them, have been rolled up
C11_Witness ==
    /\ RollupDone
    /\ SumsAreExact
    /\ Len(transactions) = 3
    /\ \A k \in 1..3 : ~fge0(transactions[k].amount)
    /\ Len(category_stats.expenses_by_category) = 2
    /\ bucket(category_stats.expenses_by_category, "drugoe") # 0

IsNegative(transaction) == flt(transaction.amount, Zero)

\* the expenses of the list given, in its order
ExpensesGiven == SelectSeq(transactions, IsNegative)

CountIn(list, transaction) ==
    Cardinality({k \in 1..Len(list) : list[k] = transaction})

AmountsOf(list) == [k \in 1..Len(list) |-> list[k].amount]

\* C12: largest_expenses holds only transactions with amount < 0, has length
\* min(5, number of expenses), is sorted ascending by signed amount, and no
\* expense left out of it has a smaller signed amount than one included;
\* over the amounts [-100, -5, -50] it is [-100, -50, -5].
C12_LargestExpenses ==
    stats_pc = "done" =>
        LET largest == stats.largest_expenses
        IN /\ \A k \in 1..Len(largest) : flt(largest[k].amount, Zero)
           /\ Len(largest) = IF Len(ExpensesGiven) < 5 THEN Len(ExpensesGiven) ELSE 5
           /\ \A k \in 1..(Len(largest) - 1) :
                  ~flt(largest[k + 1].amount, largest[k].amount)
           /\ \A k \in 1..Len(ExpensesGiven) :
                  LET e == ExpensesGiven[k]
                  IN /\ CountIn(largest, e) <= CountIn(ExpensesGiven, e)
                     /\ CountIn(largest, e) < CountIn(ExpensesGiven, e) =>
                            \A j \in 1..Len(largest) : ~flt(e.amount, largest[j].amount)
           /\ \A k \in 1..Len(largest) : CountIn(ExpensesGiven, largest[k]) > 0
           /\ AmountsOf(transactions) = <<F_m100, F_m5, F_m50>> =>
                  AmountsOf(largest) = <<F_m100, F_m50, F_m5>>

\* more than five expenses of three different amounts were given, not in
\* sorted order, and one of them was left out
C12_Witness ==
    /\ stats_pc = "done"
    /\ Len(ExpensesGiven) > 5
    /\ Len(stats.largest_expenses) = 5
    /\ Cardinality({ExpensesGiven[k].amount : k \in 1..Len(ExpensesGiven)}) = 3
    /\ AmountsOf(SubSeq(ExpensesGiven, 1, 3)) = <<F_m5, F_m100, F_m50>>
    /\ AmountsOf(stats.largest_expenses) # AmountsOf(SubSeq(ExpensesGiven, 1, 5))

----------------------------------------------------------------------------
(* Claims about the budget functions *)

\* the summed actual expenses of a category, as compare_budget_vs_actual
\* sums them
ActualOf(name) == actual_of(sum_actual(actual_transactions, <<>>), name)

\* a category other than the savings one with a limit of 0 and actual
\* expenses above 0
ZeroLimitOverspent(k) ==
    /\ budget.budget_limits[k].category \notin {"nakopleniya", "nakopleniya_mojibake"}
    /\ budget.budget_limits[k].limit = 0
    /\ ActualOf(budget.budget_limits[k].category) > 0

\* C7: a percentage with a zero denominator is 0 and no fault:
\* analyze_historical_spending reports percentage_of_total = 0 for every
\* category when total expenses are zero, and compare_budget_vs_actual
\* returns, with an overage of 0, for a category whose limit is 0 and whose
\* actual expenses are above 0.
C7_ZeroDenominatorYieldsZero ==
    /\ (analysis # None /\ analysis.total_monthly_expenses = 0) =>
           \A k \in 1..Len(analysis.category_analysis) :
               analysis.category_analysis[k].percentage_of_total = 0
    /\ comparison # None =>
           \A k \in 1..Len(budget.budget_limits) :
               ZeroLimitOverspent(k) =>
                   /\ comparison.t = "ok"
                   /\ \A r \in 1..Len(comparison.recommendations) :
                          (/\ comparison.recommendations[r].kind = "reduce"
                           /\ comparison.recommendations[r].category =
                                  budget.budget_limits[k].category)
                          => comparison.recommendations[r].percent = 0

\* the budget has the savings key every budget template has
HasSavingsKey ==
    \E k \in 1..Len(budget.budget_limits) :
        budget.budget_limits[k].category = "nakopleniya_mojibake"

\* the summed actual expenses and the summed budget limits
TotalActual ==
    sum([k \in 1..Len(actual_transactions) |->
            IF IsExpense(actual_transactions[k])
            THEN Abs(actual_transactions[k].amount) ELSE 0])

TotalBudget ==
    sum([k \in 1..Len(budget.budget_limits) |-> budget.budget_limits[k].limit])

\* C14: the comparison of a budget template with actual transactions holds
\* exactly one blanket message, 'within budget' when the summed actual
\* expenses are <= the summed limits and 'over budget' otherwise, and an
\* overage recommendation for exactly the categories other than the savings
\* one whose actual expenses exceed their limit.
C14_BlanketAndOverages ==
    (comparison # None /\ HasSavingsKey) =>
        /\ comparison.t = "ok"
        /\ LET recs == comparison.recommendations
               blankets == {r \in 1..Len(recs) :
                               recs[r].kind \in {"within budget", "over budget"}}
               reduced == {recs[r].category :
                              r \in {q \in 1..Len(recs) : recs[q].kind = "reduce"}}
               overspent == {budget.budget_limits[k].category :
                                k \in {q \in 1..Len(budget.budget_limits) :
                                   /\ budget.budget_limits[q].category # "nakopleniya_mojibake"
                                   /\ ActualOf(budget.budget_limits[q].category)
                                         > budget.budget_limits[q].limit}}
           IN /\ Cardinality(blankets) = 1
              /\ \A r \in blankets :
                     (recs[r].kind = "within budget") <=> (TotalActual <= TotalBudget)
              /\ reduced = overspent
              /\ Cardinality({r \in 1..Len(recs) : recs[r].kind = "reduce"})
                     = Cardinality(overspent)

----------------------------------------------------------------------------
(* Claims about the pipeline stages *)

\* the returned list holds the given transactions in their order, each with
\* a 'category' and otherwise the fields and values it was given with
SameButCategory(given, returned) ==
    /\ Len(returned) = Len(given)
    /\ \A k \in 1..Len(given) :
          /\ DOMAIN returned[k] = DOMAIN given[k] \cup {"category"}
          /\ \A f \in DOMAIN given[k] \ {"category"} : returned[k][f] = given[k][f]

\* C15: no stage changes the list it is given: a step of
\* categorize_all_transactions, calculate_basic_stats, calculate_by_category
\* or analyze_historical_spending leaves its transaction list as it was, and
\* the list categorize_all_transactions returns is the list given, in the
\* same order, each transaction differing only by its 'category' field.
C15_StagesLeaveInputs ==
    [][ /\ all_transactions' = all_transactions
        /\ transactions' = transactions
        /\ actual_transactions' = actual_transactions
        /\ categorized_transactions' # categorized_transactions
              => SameButCategory(all_transactions, categorized_transactions'.items) ]_vars

\* two transactions were categorized: one that had no category and got an
\* expense category, one whose category was replaced
C15_Witness ==
    /\ categorized_transactions # None
    /\ Len(categorized_transactions.items) = 2
    /\ "category" \notin DOMAIN all_transactions[1]
    /\ categorized_transactions.items[1].category = "transport"
    /\ "category" \in DOMAIN all_transactions[2]
    /\ categorized_transactions.items[2].category # all_transactions[2].category

----------------------------------------------------------------------------
(* Claims about repeated categorizer calls *)

----------------------------------------------------------------------------
(* Claims about normalize_date *)

\* YYYY-MM-DD naming a day of the calendar
IsCanonicalDate(s) ==
    /\ IsIsoDate(s)
    /\ LET y == NumVal(SubSeq(s, 1, 4))
           m == NumVal(SubSeq(s, 6, 7))
           d == NumVal(SubSeq(s, 9, 10))
       IN y >= 1 /\ m \in 1..12 /\ d \in 1..DaysInMonth(y, m)

\* C18: normalize_date returns a date that is already YYYY-MM-DD unchanged,
\* and normalizing its result again returns that result.
C18_CanonicalKeptAndIdempotent ==
    /\ (date_normalized # None /\ IsCanonicalDate(date_given))
          => date_normalized.s = date_given
    /\ date_renormalized # None => date_renormalized = date_normalized

\* the patterns as the claim lists them
ClaimedPatterns ==
    << [sep |-> "-", order |-> <<"Y", "m", "d">>],
       [sep |-> ".", order |-> <<"d", "m", "Y">>],
       [sep |-> "/", order |-> <<"d", "m", "Y">>],
       [sep |-> "/", order |-> <<"m", "d", "Y">>],
       [sep |-> ".", order |-> <<"Y", "m", "d">>] >>

\* the argument up to its first blank
CleanDate == IF date_given = <<>> THEN <<>> ELSE split(date_given, " ")[1]

Parses(k) == strptime(CleanDate, ClaimedPatterns[k]).ok

\* N/N/YYYY: two numbers of one or two digits and a year, none of them zero
IsSlashDate(s) ==
    LET f == split(s, "/")
    IN /\ Len(f) = 3
       /\ \A k \in {1, 2} : isdigit(f[k]) /\ Len(f[k]) \in {1, 2} /\ NumVal(f[k]) >= 1
       /\ isdigit(f[3]) /\ Len(f[3]) = 4 /\ NumVal(f[3]) >= 1

FirstNumber == NumVal(split(CleanDate, "/")[1])

SecondNumber == NumVal(split(CleanDate, "/")[2])

YearNumber == NumVal(split(CleanDate, "/")[3])

\* C19: normalize_date cuts its argument at the first blank and returns the
\* date of the first of YYYY-MM-DD, DD.MM.YYYY, DD/MM/YYYY, MM/DD/YYYY,
\* YYYY.MM.DD that parses, or the cut string when none does; a slash date
\* whose two leading numbers are both <= 12 is read day first, and a slash
\* date is read month first only when its first number is a month and its
\* second number is greater than 12.
C19_PatternOrder ==
    (date_normalized # None) =>
       /\ \A k \in 1..Len(ClaimedPatterns) :
             (Parses(k) /\ \A h \in 1..(k - 1) : ~Parses(h))
                => date_normalized.s = strftime(strptime(CleanDate, ClaimedPatterns[k]))
       /\ (\A k \in 1..Len(ClaimedPatterns) : ~Parses(k))
             => date_normalized.s = CleanDate
       /\ (IsSlashDate(CleanDate) /\ FirstNumber <= 12 /\ SecondNumber <= 12)
             => date_normalized.s =
                    strftime([y |-> YearNumber, m |-> SecondNumber, d |-> FirstNumber])
       /\ ( /\ IsSlashDate(CleanDate)
            /\ FirstNumber # SecondNumber
            /\ date_normalized.s =
                   strftime([y |-> YearNumber, m |-> FirstNumber, d |-> SecondNumber]) )
             => (FirstNumber \in 1..12 /\ SecondNumber > 12)

\* a slash date with a time of day whose numbers differ and are both <= 12
\* has been normalized
C19_Witness ==
    /\ date_normalized # None
    /\ CleanDate # date_given
    /\ IsSlashDate(CleanDate)
    /\ FirstNumber <= 12 /\ SecondNumber <= 12 /\ FirstNumber # SecondNumber

----------------------------------------------------------------------------
(* Claims about the expense passes of categorize_transaction *)

\* the categories the first expense loop accepts for the call, as positions
\* in the expense list
Pass1Hits ==
    {k \in 1..Len(expense_categories(categories)) :
        loose_match(keywords_of(categories, expense_categories(categories)[k]),
                    lower(tx_description), strip_punctuation(lower(tx_description)))}

\* categorize_transaction for an expense with its second loop removed
WithoutPass2 ==
    IF Pass1Hits = {} THEN "drugoe"
    ELSE expense_categories(categories)[CHOOSE k \in Pass1Hits : \A h \in Pass1Hits : k <= h]

----------------------------------------------------------------------------
(* Claims about main.py *)

\* the five globals that process_data assigns
Computed ==
    [categorized_transactions |-> main_categorized_transactions,
     stats |-> main_stats,
     category_stats |-> main_category_stats,
     budget_analysis |-> main_budget_analysis,
     budget_template |-> main_budget_template]

\* nothing of a load is held: the globals as the module's import leaves them
NothingComputed ==
    Computed = [categorized_transactions |-> <<>>,
                stats |-> [t |-> "dict"],
                category_stats |-> [t |-> "dict"],
                budget_analysis |-> [t |-> "dict"],
                budget_template |-> [t |-> "dict"]]

\* C21: at every prompt of the menu, and when an action has raised, the
\* categorized transactions and the aggregates are those computed from the
\* transactions held now; with no transactions held, whether none were
\* loaded or a load yielded none, they are empty or the aggregates of the
\* empty list, so that nothing of an earlier load is left for the report
\* and save actions.
C21_GlobalsFollowTransactions ==
    main_pc \in {"menu", "raised"} =>
        IF main_transactions = <<>>
        THEN NothingComputed \/ Computed = process_data(<<>>)
        ELSE Computed = process_data(main_transactions)

\* the importer's steps end with what import_financial_data returns
ImportStepsAgree ==
    /\ pc = "done" =>
           import_financial_data(file) = [t |-> "list", v |-> valid_transactions]
    /\ pc = "raised" => import_financial_data(file) = Raise(exc)

----------------------------------------------------------------------------
(* Claims about monthly_stats *)

\* date_str[:7]
first_seven(date_str) ==
    SubSeq(date_str, 1, IF Len(date_str) < 7 THEN Len(date_str) ELSE 7)

\* the positions of the buckets whose key is the month of a transaction
BucketsOf(transaction) ==
    {k \in 1..Len(stats.monthly_stats) :
        stats.monthly_stats[k].key = first_seven(transaction.date)}

\* the transactions of a month, in list order
OfMonth(key) ==
    LET InMonth(transaction) == first_seven(transaction.date) = key
    IN SelectSeq(transactions, InMonth)

\* every transaction has one bucket, and a bucket holds the income and the
\* expenses of the transactions of its month
InOneBucket ==
    /\ \A k \in 1..Len(transactions) : Cardinality(BucketsOf(transactions[k])) = 1
    /\ \A k \in 1..Len(stats.monthly_stats) :
         LET of_month == calculate_basic_stats(OfMonth(stats.monthly_stats[k].key))
         IN /\ stats.monthly_stats[k].income = of_month.total_income
            /\ stats.monthly_stats[k].expenses = fneg(of_month.total_expenses)

BucketBalances ==
    \A k \in 1..Len(stats.monthly_stats) :
        stats.monthly_stats[k].balance =
            fadd(stats.monthly_stats[k].income, stats.monthly_stats[k].expenses)

\* sum(...) over the buckets in insertion order
RECURSIVE bucket_sum(_, _)
bucket_sum(values, total) ==
    IF values = <<>> THEN total
    ELSE bucket_sum(Tail(values), fadd(total, Head(values)))

BucketSumsEqualTotals ==
    LET ms == stats.monthly_stats
    IN /\ bucket_sum([k \in 1..Len(ms) |-> ms[k].income], Zero) = stats.total_income
       /\ bucket_sum([k \in 1..Len(ms) |-> ms[k].expenses], Zero)
              = fneg(stats.total_expenses)
       /\ bucket_sum([k \in 1..Len(ms) |-> ms[k].balance], Zero) = stats.balance

\* C22: in the result of calculate_basic_stats every transaction of the
\* list (each has a date and an amount, as the importer's filter demands) is
\* counted in exactly one month bucket, each bucket's balance is its income
\* plus its expenses, and the sums of income, expenses and balance over the
\* buckets equal total_income, -total_expenses and balance.
C22_MonthBuckets ==
    stats_pc = "done" => InOneBucket /\ BucketBalances /\ BucketSumsEqualTotals

\* the halves of the claim, taken alone
MonthBucketsBalance == stats_pc = "done" => BucketBalances

MonthBucketsOfLongDates ==
    (stats_pc = "done" /\ \A k \in 1..Len(transactions) : Len(transactions[k].date) >= 7)
        => InOneBucket

MonthSumsOfLongDates ==
    (stats_pc = "done" /\ \A k \in 1..Len(transactions) : Len(transactions[k].date) >= 7)
        => BucketSumsEqualTotals
====
